---- MODULE Spec2Model ----
(***************************************************************************)
(* Model of the odit driver for the Native Oberon file system:             *)
(* internal/disk (sector I/O), internal/util (BitSet) and                  *)
(* internal/filesystem (FileSystem, File, dirPage, fileHeader,             *)
(* indexSector).                                                           *)
(*                                                                         *)
(* A sector is a row of cells; a cell stands for one on-disk field (a mark,*)
(* a name, a length, a sector address) or one byte of user data.  The cell  *)
(* of a name holds the fnLength bytes of the field as one number, the      *)
(* first byte being the most significant digit.  The                       *)
(* geometry (cells per sector, table sizes, entries per directory page) is *)
(* scaled down, keeping the relations the source has between them:         *)
(*   sectorSize = dirHdrSize + dirPgSize * dirEntrySize   (2048=48+50*40)  *)
(*   headerSize = ofsSecTable + secTabSize                (352=96+64*4)    *)
(*   ofsSecTable = ofsExtTable + exTabSize                (96=48+12*4)     *)
(***************************************************************************)
EXTENDS Integers, Sequences, FiniteSets, TLC

\* ------------------------------------------------------------------------
\* Bounds of the model
\* ------------------------------------------------------------------------
nummax == 6        \* Disk.nummax: sectors of the partition
dirPgSize == 2     \* entries per directory page (50 in the source)
secTabSize == 2    \* entries of the sector table (64 in the source)
exTabSize == 2     \* entries of the extension table (12 in the source)
indexSize == 2     \* entries of an index sector (512 in the source)
MaxHandles == 2    \* File objects alive in one session
NumNames == 3      \* distinct file names
MaxPos == 2        \* largest write/read position offered
MaxLen == 2        \* longest data string / read length offered
fnLength == 3      \* bytes of a file name field (32 in the source)
ByteBase == 128    \* values of one byte of a name field (names are ASCII)

\* ------------------------------------------------------------------------
\* Program constants
\* ------------------------------------------------------------------------
SectorMultiplier == 29
dirRootAdr == 29
WordBits == 64
\* uint32 arithmetic wraps.  The model checker's integers are 32 bits wide and
\* signed, so the modulus used here is 2^30; every length, position and
\* address of the model is far below it, and a wrapped value is far above
\* them, as it is with 2^32.
U32 == 1073741824
U16 == 65536
\* the marks, as the signed 32-bit numbers their bit patterns denote
headerMark == -1683546746  \* 0x9BA71D86
dirMark == -1692490867     \* 0x9B1EA38D
mapMark == -1674602625     \* 0x9C2F977F

\* cell layout of a file header
ofsMark == 0
ofsFilename == 1
ofsAleng == 2
ofsBleng == 3
ofsExtTable == 4
ofsSecTable == ofsExtTable + exTabSize
headerSize == ofsSecTable + secTabSize

\* cell layout of a directory page
ofsDirM == 1
ofsDirP0 == 2
dirHdrSize == 3
dirEntrySize == 3
sectorSize == dirHdrSize + dirPgSize * dirEntrySize

Min(a, b) == IF a < b THEN a ELSE b
Max(a, b) == IF a > b THEN a ELSE b

\* ------------------------------------------------------------------------
\* internal/disk
\* ------------------------------------------------------------------------
\* Disk.Size: the size in encoded sectors
DiskSize == nummax * SectorMultiplier

ZeroSector == [i \in 0..(sectorSize - 1) |-> 0]

\* the guard shared by GetSector and PutSector
ValidAddr(src) ==
    /\ src % SectorMultiplier = 0
    /\ src \div SectorMultiplier >= 1
    /\ src \div SectorMultiplier <= nummax

GetSector(d, src) == d[src \div SectorMultiplier]

PutSector(d, src, sec) == [d EXCEPT ![src \div SectorMultiplier] = sec]

\* ------------------------------------------------------------------------
\* internal/util BitSet: a set of bit numbers over a fixed number of words
\* ------------------------------------------------------------------------
NewBitSetWords(size) == (size + (WordBits - 1)) \div WordBits

\* the words of FileSystem.sectorReservationMap, as New sizes it
MapWords == NewBitSetWords(DiskSize \div SectorMultiplier)

\* b[bit/64] is inside the slice
BitInRange(bit) == bit \div WordBits < MapWords

BitSetSet(b, bit) == b \cup {bit}
BitSetClear(b, bit) == b \ {bit}
BitSetTest(b, bit) == bit \in b

\* ------------------------------------------------------------------------
\* Outcomes of a handler.  "ok" is a normal return; the others end the
\* process: a Go panic ("panic: ..."), or a loop that never exits ("hang").
\* ------------------------------------------------------------------------
OK == "ok"
DiskFull == "panic: Disk full"
Hang == "hang"
NotMultiple == "panic: addr not a multiple of 29"
IndexOutOfRange == "panic: index out of range"
BadSector == "panic: invalid sector number"
FileTooLarge == "panic: file too large"
IndexBlockMissing == "panic: index block missing"
NilDeref == "panic: nil pointer dereference"

\* ------------------------------------------------------------------------
\* let x = v in F(x), with v computed once
\* ------------------------------------------------------------------------
With(v, F(_)) == CHOOSE y \in {F(x) : x \in {v}} : TRUE

\* ------------------------------------------------------------------------
\* FileSystem: the sector allocator
\* ------------------------------------------------------------------------
\* IsSectorFree without the negation of Test
IsSectorFree_NotNegated(map, addr) == BitSetTest(map, addr \div SectorMultiplier)

\* FileSystem.IsSectorFree, on a multiple of 29 whose bit is inside the map
IsSectorFree(map, addr) == ~BitSetTest(map, addr \div SectorMultiplier)

\* the loop of FileSystem.AllocSector; seen holds the values sec had at the
\* head of the loop: the map does not change while searching, so the loop
\* never exits once sec takes a value a second time
RECURSIVE AllocLoop(_, _, _, _)
AllocLoop(map, hint, sec, seen) ==
    IF sec = hint THEN [status |-> DiskFull, sec |-> 0]
    ELSE IF sec % SectorMultiplier # 0 THEN [status |-> NotMultiple, sec |-> 0]
    ELSE IF ~BitInRange(sec \div SectorMultiplier)
        THEN [status |-> IndexOutOfRange, sec |-> 0]
    ELSE IF IsSectorFree(map, sec) THEN [status |-> OK, sec |-> sec]
    ELSE With(IF sec + SectorMultiplier > DiskSize THEN 29
              ELSE sec + SectorMultiplier,
              LAMBDA nx :
                IF nx \in seen THEN [status |-> Hang, sec |-> 0]
                ELSE With(seen \cup {nx},
                          LAMBDA seen1 : AllocLoop(map, hint, nx, seen1)))

\* FileSystem.AllocSector: the outcome and the address found
AllocSector(map, hint) ==
    LET h == IF hint > DiskSize THEN 0 ELSE hint
        sec == (h + 29) % U32
    IN  AllocLoop(map, h, sec, {sec})

\* AllocSector that counts the sector but leaves its bit clear
AllocMark_NoSet(S, sec) == [S EXCEPT !.used = (S.used + 1) % U32]

\* the map and the counter after a successful AllocSector
AllocMark(S, sec) ==
    [S EXCEPT !.map = BitSetSet(S.map, sec \div SectorMultiplier),
              !.used = (S.used + 1) % U32]

\* FreeSector without the decrement of numUsedSectors
FreeSector_KeepsCount(S, addr) ==
    IF addr % SectorMultiplier # 0 THEN [S EXCEPT !.status = NotMultiple]
    ELSE IF ~BitInRange(addr \div SectorMultiplier)
        THEN [S EXCEPT !.status = IndexOutOfRange]
    ELSE [S EXCEPT !.map = BitSetClear(S.map, addr \div SectorMultiplier)]

\* FileSystem.FreeSector on a state record
FreeSector(S, addr) ==
    IF addr % SectorMultiplier # 0 THEN [S EXCEPT !.status = NotMultiple]
    ELSE IF ~BitInRange(addr \div SectorMultiplier)
        THEN [S EXCEPT !.status = IndexOutOfRange]
    ELSE [S EXCEPT !.map = BitSetClear(S.map, addr \div SectorMultiplier),
                   !.used = (S.used - 1) % U32]

\* FileSystem.markSectorUsed on a state record
markSectorUsed(S, addr) ==
    IF addr % SectorMultiplier # 0 THEN [S EXCEPT !.status = NotMultiple]
    ELSE IF ~BitInRange(addr \div SectorMultiplier)
        THEN [S EXCEPT !.status = IndexOutOfRange]
    ELSE [S EXCEPT !.map = BitSetSet(S.map, addr \div SectorMultiplier),
                   !.used = (S.used + 1) % U32]

\* ------------------------------------------------------------------------
\* fileHeader and indexSector: typed views of a sector
\* ------------------------------------------------------------------------
\* the non-zero cells of sec[from .. from+n-1], in order
RECURSIVE NonZero(_, _, _)
NonZero(sec, from, n) ==
    IF n = 0 THEN << >>
    ELSE (IF sec[from] # 0 THEN << sec[from] >> ELSE << >>)
         \o NonZero(sec, from + 1, n - 1)

\* util.StringFromBytes on the cell v of a name field: the bytes of the
\* field, first byte first, without the NUL bytes at its end
\* (bytes.TrimRight(b, "\x00"))
StringFromBytes(v) ==
    LET b == [i \in 1..fnLength |-> (v \div (ByteBase ^ (fnLength - i))) % ByteBase]
        used == {i \in 1..fnLength : b[i] # 0}
        n == IF used = {} THEN 0 ELSE CHOOSE i \in used : \A j \in used : j <= i
    IN  SubSeq(b, 1, n)

\* util.WriteFixedLengthString(b, offset, fnLength, s): the cell of the name
\* field afterwards, the bytes of s followed by NULs.  Every caller passes
\* len(s) <= fnLength.
RECURSIVE WriteFixedLengthString(_, _)
WriteFixedLengthString(s, i) ==
    IF i > fnLength THEN 0
    ELSE (IF i <= Len(s) THEN s[i] ELSE 0) * (ByteBase ^ (fnLength - i))
         + WriteFixedLengthString(s, i + 1)

\* s < t of two Go strings: byte by byte, a proper prefix being smaller
RECURSIVE StrLess(_, _)
StrLess(a, b) ==
    IF Len(b) = 0 THEN FALSE
    ELSE IF Len(a) = 0 THEN TRUE
    ELSE IF a[1] # b[1] THEN a[1] < b[1]
    ELSE StrLess(Tail(a), Tail(b))

IsValid(hdr) == hdr[ofsMark] = headerMark
name(hdr) == StringFromBytes(hdr[ofsFilename])
aleng(hdr) == hdr[ofsAleng]
bleng(hdr) == hdr[ofsBleng]
getExtensionTable(hdr) == NonZero(hdr, ofsExtTable, exTabSize)
getSectorTable(hdr) == NonZero(hdr, ofsSecTable, secTabSize)
entries(isec) == NonZero(isec, 0, indexSize)

setExtensionTable(hdr, extTable) ==
    [c \in 0..(sectorSize - 1) |->
        IF c >= ofsExtTable /\ c < ofsExtTable + exTabSize
        THEN (IF c - ofsExtTable < Len(extTable)
              THEN extTable[c - ofsExtTable + 1] ELSE 0)
        ELSE hdr[c]]

\* File.Size
Size(hdr) == (aleng(hdr) * sectorSize + bleng(hdr) - headerSize) % U32

\* File.physicalPos
physicalPos(p) ==
    LET q == (p + headerSize) % U32
    IN  [sector |-> q \div sectorSize, offset |-> q % sectorSize]

\* s[i] of a Go slice: the element, or an index-out-of-range panic
At(s, i) ==
    IF i < Len(s) THEN [status |-> OK, addr |-> s[i + 1]]
    ELSE [status |-> IndexOutOfRange, addr |-> 0]

\* File.getSectorAddr: the address of the i-th sector of the file
getSectorAddr(d, hdr, i) ==
    IF i < secTabSize THEN At(getSectorTable(hdr), i)
    ELSE IF (i - secTabSize) \div indexSize >= exTabSize
        THEN [status |-> FileTooLarge, addr |-> 0]
    ELSE With(At(getExtensionTable(hdr), (i - secTabSize) \div indexSize),
              LAMBDA x :
                IF x.status # OK THEN [status |-> IndexBlockMissing, addr |-> 0]
                ELSE IF ~ValidAddr(x.addr) THEN [status |-> BadSector, addr |-> 0]
                ELSE At(entries(GetSector(d, x.addr)), (i - secTabSize) % indexSize))

\* ------------------------------------------------------------------------
\* File: growing, writing and reading.  A handler works on a record
\*   S = [disk, map, used, hdr, status]
\* (the image, the reservation map, numUsedSectors, the File's in-memory
\* header, the outcome so far); a step after a panic does nothing.
\* ------------------------------------------------------------------------
Fail(S, why) == [S EXCEPT !.status = why]

\* Disk.PutSector as File calls it: an out-of-range index is an error the
\* caller drops, an address that is no multiple of 29 panics
PutSectorS(S, addr, sec) ==
    IF addr % SectorMultiplier # 0 THEN Fail(S, BadSector)
    ELSE IF ~ValidAddr(addr) THEN S
    ELSE [S EXCEPT !.disk = PutSector(S.disk, addr, sec)]

\* Disk.MustPutSector
MustPutSectorS(S, addr, sec) ==
    IF ~ValidAddr(addr) THEN Fail(S, BadSector)
    ELSE [S EXCEPT !.disk = PutSector(S.disk, addr, sec)]

\* addIndexBlock that leaves the new index block as it is found on disk
addIndexBlock_NotZeroed(S, extTable) ==
    With(AllocSector(S.map, IF Len(extTable) > 0 THEN extTable[Len(extTable)] ELSE 0),
         LAMBDA a :
           IF a.status # OK THEN Fail(S, a.status)
           ELSE [AllocMark(S, a.sec) EXCEPT !.hdr =
                         setExtensionTable(S.hdr, Append(extTable, a.sec))])

\* one round of the loop of File.addSector that extends the extension
\* table: allocate an index block after the last one, enter it in the
\* table, zero it on disk
addIndexBlock(S, extTable) ==
    With(AllocSector(S.map, IF Len(extTable) > 0 THEN extTable[Len(extTable)] ELSE 0),
         LAMBDA a :
           IF a.status # OK THEN Fail(S, a.status)
           ELSE With([AllocMark(S, a.sec) EXCEPT !.hdr =
                         setExtensionTable(S.hdr, Append(extTable, a.sec))],
                     LAMBDA S1 : MustPutSectorS(S1, a.sec, ZeroSector)))

\* the loop of File.addSector that extends the extension table up to
\* indexBlockIndex
RECURSIVE addIndexBlocks(_, _)
addIndexBlocks(S, indexBlockIndex) ==
    IF S.status # OK \/ Len(getExtensionTable(S.hdr)) > indexBlockIndex THEN S
    ELSE With(addIndexBlock(S, getExtensionTable(S.hdr)),
              LAMBDA S1 : addIndexBlocks(S1, indexBlockIndex))

\* the end of File.addSector: enter addr at place k of the index block
setIndexEntry(S, indexBlockAddr, k, addr) ==
    IF ~ValidAddr(indexBlockAddr) THEN Fail(S, BadSector)
    ELSE PutSectorS(S, indexBlockAddr,
                    [GetSector(S.disk, indexBlockAddr) EXCEPT ![k] = addr])

\* File.addSector
addSector(S, index, addr) ==
    IF index < secTabSize
    THEN [S EXCEPT !.hdr[ofsSecTable + index] = addr]
    ELSE IF (index - secTabSize) \div indexSize >= exTabSize
        THEN Fail(S, FileTooLarge)
    ELSE With(addIndexBlocks(S, (index - secTabSize) \div indexSize),
              LAMBDA S1 :
                IF S1.status # OK THEN S1
                ELSE setIndexEntry(
                       S1,
                       getExtensionTable(S1.hdr)[((index - secTabSize) \div indexSize) + 1],
                       (index - secTabSize) % indexSize, addr))

\* the hint of the k-th allocation of one ensureSize call (rand.Uint32())
HintOf(hints, k) == hints[(k % Len(hints)) + 1]

\* the allocation loop of File.ensureSize, for file sectors i .. newSecs-1
RECURSIVE ensureLoop(_, _, _, _, _)
ensureLoop(S, i, newSecs, hints, k) ==
    IF S.status # OK \/ i >= newSecs THEN S
    ELSE With(AllocSector(S.map, HintOf(hints, k)),
              LAMBDA a :
                IF a.status # OK THEN Fail(S, a.status)
                ELSE With(AllocMark(S, a.sec), LAMBDA S1 :
                     With(addSector(S1, i, a.sec), LAMBDA S2 :
                     With(i + 1, LAMBDA i1 :
                     With(k + 1, LAMBDA k1 :
                          ensureLoop(S2, i1, newSecs, hints, k1))))))

\* the end of File.ensureSize: set aleng and bleng, write the header
setLength(S, headerAddr, newSize) ==
    With([S.hdr EXCEPT ![ofsAleng] = (newSize \div sectorSize) % U16,
                       ![ofsBleng] = (newSize % sectorSize) % U16],
         LAMBDA h : PutSectorS([S EXCEPT !.hdr = h], headerAddr, h))

\* File.ensureSize
ensureSize(S, headerAddr, l, hints) ==
    IF l <= Size(S.hdr) THEN S
    ELSE With((Size(S.hdr) + headerSize) % U32, LAMBDA size :
         With((l + headerSize) % U32, LAMBDA newSize :
         With(ensureLoop(S, ((size + sectorSize - 1) % U32) \div sectorSize,
                         ((newSize + sectorSize - 1) % U32) \div sectorSize,
                         hints, 0),
              LAMBDA S1 :
                IF S1.status # OK THEN S1
                ELSE setLength(S1, headerAddr, newSize))))

\* copy(sectorData[off:], data): data overwrites the cells from off on
CopyInto(sec, off, data) ==
    [c \in 0..(sectorSize - 1) |->
        IF c >= off /\ c - off < Len(data) THEN data[c - off + 1] ELSE sec[c]]

\* writeSector that overlays the data at the start of the sector, whatever
\* off is
writeSector_AtSectorStart(S, sectorIdx, off, data) ==
    IF S.status # OK THEN S
    ELSE With(getSectorAddr(S.disk, S.hdr, sectorIdx),
              LAMBDA r :
                IF r.status # OK THEN Fail(S, r.status)
                ELSE IF ~ValidAddr(r.addr) THEN Fail(S, BadSector)
                ELSE PutSectorS(S, r.addr,
                                CopyInto(GetSector(S.disk, r.addr), 0, data)))

\* one sector of File.WriteAt: look the sector up, read it, overlay the data
\* at off, write it back
writeSector(S, sectorIdx, off, data) ==
    IF S.status # OK THEN S
    ELSE With(getSectorAddr(S.disk, S.hdr, sectorIdx),
              LAMBDA r :
                IF r.status # OK THEN Fail(S, r.status)
                ELSE IF ~ValidAddr(r.addr) THEN Fail(S, BadSector)
                ELSE PutSectorS(S, r.addr,
                                CopyInto(GetSector(S.disk, r.addr), off, data)))

\* the loop of File.WriteAt over the full sectors in the middle, and the
\* partial sector at the end
RECURSIVE writeRest(_, _, _)
writeRest(S, sectorIdx, data) ==
    IF S.status # OK THEN S
    ELSE IF Len(data) >= sectorSize
        THEN With(writeSector(S, sectorIdx, 0, SubSeq(data, 1, sectorSize)), LAMBDA S1 :
             With(SubSeq(data, sectorSize + 1, Len(data)), LAMBDA rest :
             With(sectorIdx + 1, LAMBDA next :
                  writeRest(S1, next, rest))))
    ELSE IF Len(data) > 0 THEN writeSector(S, sectorIdx, 0, data)
    ELSE S

\* WriteAt that keeps its copy of the header after writing the first sector
rereadHeader_KeepsCopy(S, headerAddr, firstSectorIdx) == S

\* File.WriteAt after the first sector is written: the header is read again
\* if the first sector was the header sector
rereadHeader(S, headerAddr, firstSectorIdx) ==
    IF S.status # OK \/ firstSectorIdx # 0 THEN S
    ELSE IF ValidAddr(headerAddr)
        THEN [S EXCEPT !.hdr = GetSector(S.disk, headerAddr)]
    ELSE Fail(S, BadSector)

\* File.WriteAt
WriteAt(S, headerAddr, pos, data, hints) ==
    With(ensureSize(S, headerAddr, (pos + Len(data)) % U32, hints), LAMBDA S1 :
    With(physicalPos(pos), LAMBDA pp :
    With(Min(sectorSize - pp.offset, Len(data)), LAMBDA remainingInFirst :
    With(writeSector(S1, pp.sector, pp.offset, SubSeq(data, 1, remainingInFirst)),
         LAMBDA S2 :
    With(rereadHeader(S2, headerAddr, pp.sector), LAMBDA S3 :
    With(SubSeq(data, remainingInFirst + 1, Len(data)), LAMBDA rest :
         writeRest(S3, pp.sector + 1, rest)))))))

\* sectorData[from : from+n] of the file's sector sectorIdx
readSector(d, hdr, sectorIdx, from, n) ==
    With(getSectorAddr(d, hdr, sectorIdx),
         LAMBDA r :
           IF r.status # OK THEN [status |-> r.status, data |-> << >>]
           ELSE IF ~ValidAddr(r.addr) THEN [status |-> BadSector, data |-> << >>]
           ELSE IF from + n > sectorSize
               THEN [status |-> IndexOutOfRange, data |-> << >>]
           ELSE [status |-> OK,
                 data |-> [c \in 1..n |-> GetSector(d, r.addr)[from + c - 1]]])

\* the loop of File.ReadAt over the full sectors in the middle, and the
\* partial sector at the end
RECURSIVE readRest(_, _, _, _, _)
readRest(d, hdr, sectorIdx, l, data) ==
    IF l > sectorSize
    THEN With(readSector(d, hdr, sectorIdx, 0, sectorSize),
              LAMBDA r :
                IF r.status # OK THEN r
                ELSE With(sectorIdx + 1, LAMBDA next :
                     With(l - sectorSize, LAMBDA l1 :
                     With(data \o r.data, LAMBDA data1 :
                          readRest(d, hdr, next, l1, data1)))))
    ELSE IF l > 0
    THEN With(readSector(d, hdr, sectorIdx, 0, l),
              LAMBDA r :
                IF r.status # OK THEN r
                ELSE [status |-> OK, data |-> data \o r.data])
    ELSE [status |-> OK, data |-> data]

\* File.ReadAt: the outcome and the bytes returned
ReadAt(d, hdr, pos, len) ==
    With(IF (pos + len) % U32 > Size(hdr) THEN (Size(hdr) - pos) % U32 ELSE len,
         LAMBDA l :
    With(physicalPos(pos), LAMBDA pp :
    With(Min(sectorSize - pp.offset, l), LAMBDA remainingInFirst :
    With(readSector(d, hdr, pp.sector, pp.offset, remainingInFirst), LAMBDA r :
         IF r.status # OK THEN r
         ELSE readRest(d, hdr, pp.sector + 1, l - remainingInFirst, r.data)))))

\* ------------------------------------------------------------------------
\* dirPage: the directory tree.  A page is a record
\*   [addr, p0, entries]   with entries a sequence of [name, adr, p];
\* a page pointer (p0, p) is << >> for nil and << page >> otherwise.
\* ------------------------------------------------------------------------
LoadError == "error: failed to load root dir page"

\* dirPage.getAddr
getAddr(dp) == IF Len(dp) = 0 THEN 0 ELSE dp[1].addr

\* dirPage.asSector
asSector(dp) ==
    [c \in 0..(sectorSize - 1) |->
        IF c = ofsMark THEN dirMark
        ELSE IF c = ofsDirM THEN Len(dp.entries) % U16
        ELSE IF c = ofsDirP0 THEN getAddr(dp.p0)
        ELSE LET i == (c - dirHdrSize) \div dirEntrySize
                 f == (c - dirHdrSize) % dirEntrySize
             IN  IF i >= Len(dp.entries) THEN 0
                 ELSE IF f = 0 THEN WriteFixedLengthString(dp.entries[i + 1].name, 1)
                 ELSE IF f = 1 THEN dp.entries[i + 1].adr
                 ELSE getAddr(dp.entries[i + 1].p)]

\* dirPage.writeToDisk: the page, then the p0 subtree, then the subtree of
\* each entry
RECURSIVE writeToDisk(_, _)
RECURSIVE writeEntriesToDisk(_, _, _)
writeEntriesToDisk(S, es, i) ==
    IF S.status # OK \/ i > Len(es) THEN S
    ELSE With(writeToDisk(S, es[i].p), LAMBDA S1 :
         With(i + 1, LAMBDA i1 : writeEntriesToDisk(S1, es, i1)))

writeToDisk(S, dp) ==
    IF S.status # OK \/ Len(dp) = 0 THEN S
    ELSE With(MustPutSectorS(S, dp[1].addr, asSector(dp[1])), LAMBDA S1 :
         With(writeToDisk(S1, dp[1].p0), LAMBDA S2 :
              writeEntriesToDisk(S2, dp[1].entries, 1)))

\* dirPage.collectDirPageAddresses
RECURSIVE collectDirPageAddresses(_)
RECURSIVE collectEntryPageAddresses(_, _)
collectEntryPageAddresses(es, i) ==
    IF i > Len(es) THEN << >>
    ELSE collectDirPageAddresses(es[i].p) \o collectEntryPageAddresses(es, i + 1)

collectDirPageAddresses(dp) ==
    IF Len(dp) = 0 THEN << >>
    ELSE << dp[1].addr >> \o collectDirPageAddresses(dp[1].p0)
         \o collectEntryPageAddresses(dp[1].entries, 1)

\* dirPage.collectDirEntries, with the collector of FileSystem.init that
\* drops the page pointer of each entry
RECURSIVE collectDirEntries(_)
RECURSIVE collectEntryEntries(_, _)
collectEntryEntries(es, i) ==
    IF i > Len(es) THEN << >>
    ELSE << [name |-> es[i].name, adr |-> es[i].adr, p |-> << >>] >>
         \o collectDirEntries(es[i].p) \o collectEntryEntries(es, i + 1)

collectDirEntries(dp) ==
    IF Len(dp) = 0 THEN << >>
    ELSE collectDirEntries(dp[1].p0) \o collectEntryEntries(dp[1].entries, 1)

\* loadDirFromDisk: [status, page, seen]
RECURSIVE loadDirFromDisk(_, _, _)
RECURSIVE loadDirEntries(_, _, _, _, _)
\* the subtree behind the page pointer pAddr, nil for 0
loadSubtree(d, pAddr, seen) ==
    IF pAddr # 0 THEN loadDirFromDisk(d, pAddr, seen)
    ELSE [status |-> OK, page |-> << >>, seen |-> seen]

\* the loop of loadDirFromDisk over the entries of the page
loadDirEntries(d, sec, i, seen, acc) ==
    IF i >= sec[ofsDirM] % U16 THEN [status |-> OK, es |-> acc, seen |-> seen]
    ELSE With(dirHdrSize + i * dirEntrySize, LAMBDA offset :
         With(loadSubtree(d, sec[offset + 2], seen), LAMBDA r :
           IF r.status # OK THEN [status |-> r.status, es |-> acc, seen |-> r.seen]
           ELSE With(Append(acc, [name |-> StringFromBytes(sec[offset]),
                                  adr |-> sec[offset + 1],
                                  p |-> r.page]), LAMBDA acc1 :
                With(i + 1, LAMBDA i1 :
                     loadDirEntries(d, sec, i1, r.seen, acc1)))))

\* loadDirFromDisk that takes a page it has seen before for a nil page
loadPage_SkipsSeen(d, addr, sec, seen) ==
    IF sec[ofsMark] # dirMark
        THEN [status |-> LoadError, page |-> << >>, seen |-> seen]
    ELSE IF addr \in seen
        THEN [status |-> OK, page |-> << >>, seen |-> seen]
    ELSE IF sec[ofsDirM] % U16 > dirPgSize
        THEN [status |-> IndexOutOfRange, page |-> << >>, seen |-> seen]
    ELSE With(loadSubtree(d, sec[ofsDirP0], seen \cup {addr}), LAMBDA r0 :
           IF r0.status # OK THEN r0
           ELSE With(loadDirEntries(d, sec, 0, r0.seen, << >>), LAMBDA re :
                  IF re.status # OK
                  THEN [status |-> re.status, page |-> << >>, seen |-> re.seen]
                  ELSE [status |-> OK, seen |-> re.seen,
                        page |-> << [addr |-> addr, p0 |-> r0.page,
                                     entries |-> re.es] >>]))

\* loadDirFromDisk once the sector is read
loadPage(d, addr, sec, seen) ==
    IF sec[ofsMark] # dirMark
        THEN [status |-> LoadError, page |-> << >>, seen |-> seen]
    ELSE IF addr \in seen
        THEN [status |-> LoadError, page |-> << >>, seen |-> seen]
    ELSE IF sec[ofsDirM] % U16 > dirPgSize
        THEN [status |-> IndexOutOfRange, page |-> << >>, seen |-> seen]
    ELSE With(loadSubtree(d, sec[ofsDirP0], seen \cup {addr}), LAMBDA r0 :
           IF r0.status # OK THEN r0
           ELSE With(loadDirEntries(d, sec, 0, r0.seen, << >>), LAMBDA re :
                  IF re.status # OK
                  THEN [status |-> re.status, page |-> << >>, seen |-> re.seen]
                  ELSE [status |-> OK, seen |-> re.seen,
                        page |-> << [addr |-> addr, p0 |-> r0.page,
                                     entries |-> re.es] >>]))

loadDirFromDisk(d, addr, seen) ==
    IF ~ValidAddr(addr) THEN [status |-> BadSector, page |-> << >>, seen |-> seen]
    ELSE With(GetSector(d, addr), LAMBDA sec : loadPage(d, addr, sec, seen))

\* ------------------------------------------------------------------------
\* FileSystem: open (New / init)
\* ------------------------------------------------------------------------
RECURSIVE markAll(_, _, _)
markAll(S, addrs, i) ==
    IF S.status # OK \/ i > Len(addrs) THEN S
    ELSE With(markSectorUsed(S, addrs[i]), LAMBDA S1 :
         With(i + 1, LAMBDA i1 : markAll(S1, addrs, i1)))

\* the loop over the index blocks that marks each block but not its entries
RECURSIVE markExtensions_BlocksOnly(_, _, _)
markExtensions_BlocksOnly(S, ext, i) ==
    IF S.status # OK \/ i > Len(ext) THEN S
    ELSE With(markSectorUsed(S, ext[i]), LAMBDA S1 :
           IF S1.status # OK THEN S1
           ELSE IF ~ValidAddr(ext[i]) THEN Fail(S1, BadSector)
           ELSE With(i + 1, LAMBDA i1 : markExtensions_BlocksOnly(S1, ext, i1)))

\* the index blocks of one file in FileSystem.init: mark the block, read it,
\* mark its entries
RECURSIVE markExtensions(_, _, _)
markExtensions(S, ext, i) ==
    IF S.status # OK \/ i > Len(ext) THEN S
    ELSE With(markSectorUsed(S, ext[i]), LAMBDA S1 :
           IF S1.status # OK THEN S1
           ELSE IF ~ValidAddr(ext[i]) THEN Fail(S1, BadSector)
           ELSE With(markAll(S1, entries(GetSector(S1.disk, ext[i])), 1), LAMBDA S2 :
                With(i + 1, LAMBDA i1 : markExtensions(S2, ext, i1))))

\* the scan of FileSystem.init over the files of the directory
RECURSIVE markFiles(_, _, _)
markFiles(S, fls, i) ==
    IF S.status # OK \/ i > Len(fls) THEN S
    ELSE IF ~ValidAddr(fls[i].adr) THEN Fail(S, BadSector)
    ELSE With(GetSector(S.disk, fls[i].adr), LAMBDA fh :
         With(markAll(S, getSectorTable(fh), 1), LAMBDA S1 :
         With(markExtensions(S1, getExtensionTable(fh), 1), LAMBDA S2 :
         With(i + 1, LAMBDA i1 : markFiles(S2, fls, i1)))))

\* FileSystem.init once the directory is loaded (r), on the image d1:
\* [status, disk, map, used, files, dirPages]
initScan(d1, r) ==
    IF r.status # OK
    THEN [status |-> r.status, disk |-> d1, map |-> BitSetSet({}, 0), used |-> 0,
          files |-> << >>, dirPages |-> << >>]
    ELSE With(collectDirEntries(r.page), LAMBDA fls :
         With(collectDirPageAddresses(r.page), LAMBDA pages :
         With(markAll([disk |-> d1, map |-> BitSetSet({}, 0), used |-> 0,
                       hdr |-> ZeroSector, status |-> OK], pages, 1), LAMBDA S0 :
         With(markFiles(S0, fls, 1), LAMBDA S1 :
              [status |-> S1.status, disk |-> d1, map |-> S1.map, used |-> S1.used,
               files |-> fls, dirPages |-> pages]))))

\* FileSystem.init that leaves the sector at Size() as it finds it
FsInit_KeepsIndex(d) ==
    With(loadDirFromDisk(d, dirRootAdr, {}), LAMBDA r : initScan(d, r))

\* New followed by FileSystem.init on the image d
FsInit(d) ==
    With(PutSector(d, DiskSize, [GetSector(d, DiskSize) EXCEPT ![0] = 0]), LAMBDA d1 :
    With(loadDirFromDisk(d1, dirRootAdr, {}), LAMBDA r : initScan(d1, r)))

\* ------------------------------------------------------------------------
\* FileSystem: close (writeDirectoryToDisk / buildDirTree)
\* ------------------------------------------------------------------------
\* sort.Slice(fs.files, name <): names in fs.files are distinct
RECURSIVE SortByName(_)
SortByName(es) ==
    IF Len(es) = 0 THEN << >>
    ELSE With(CHOOSE k \in 1..Len(es) :
                 \A j \in 1..Len(es) : ~StrLess(es[j].name, es[k].name),
              LAMBDA i :
                With(SubSeq(es, 1, i - 1) \o SubSeq(es, i + 1, Len(es)),
                     LAMBDA rest : << es[i] >> \o SortByName(rest)))

RECURSIVE freeAll(_, _, _)
freeAll(S, addrs, i) ==
    IF S.status # OK \/ i > Len(addrs) THEN S
    ELSE With(FreeSector(S, addrs[i]), LAMBDA S1 :
         With(i + 1, LAMBDA i1 : freeAll(S1, addrs, i1)))

\* the allocating branch of dirPageAddrProvider
allocDirPage(P) ==
    With(AllocSector(P.S.map, 0), LAMBDA a :
      IF a.status # OK
      THEN [addr |-> 0, P |-> [P EXCEPT !.S = Fail(P.S, a.status)]]
      ELSE With(AllocMark(P.S, a.sec), LAMBDA S1 :
             [addr |-> a.sec,
              P |-> [P EXCEPT !.S = markSectorUsed(S1, a.sec),
                              !.new = Append(P.new, a.sec)]]))

\* dirPageAddrProvider of writeDirectoryToDisk, on a record
\*   P = [S, old, next, new]
\* (the handler state, fs.dirPages, nextPageAddr, newDirPages)
dirPageAddrProvider(P) ==
    IF P.next < Len(P.old)
    THEN [addr |-> P.old[P.next + 1],
          P |-> [P EXCEPT !.next = P.next + 1,
                          !.new = Append(P.new, P.old[P.next + 1])]]
    ELSE allocDirPage(P)

\* FileSystem.buildDirTree: [page, P]
RECURSIVE buildDirTree(_, _)
RECURSIVE buildBuckets(_, _, _, _, _, _)
\* the bucket loop of buildDirTree: bucket i holds es[start+1 .. end]; the
\* first bucket becomes the p0 subtree, the first entry of each later bucket
\* an entry of the node, the rest of the bucket that entry's subtree
buildBuckets(P, es, bucketSize, i, start, node) ==
    IF P.S.status # OK \/ start >= Len(es) THEN [page |-> << node >>, P |-> P]
    ELSE With(Min(start + bucketSize, Len(es)), LAMBDA end :
         With(SubSeq(es, start + 1, end), LAMBDA bucketEntries :
         With(IF i = 0 THEN buildDirTree(P, bucketEntries)
              ELSE buildDirTree(P, SubSeq(bucketEntries, 2, Len(bucketEntries))),
              LAMBDA r :
         With(IF i = 0 THEN [node EXCEPT !.p0 = r.page]
              ELSE [node EXCEPT !.entries =
                       Append(node.entries, [bucketEntries[1] EXCEPT !.p = r.page])],
              LAMBDA node1 :
         With(i + 1, LAMBDA i1 :
              buildBuckets(r.P, es, bucketSize, i1, end, node1))))))

\* buildDirTree whose leaf test lets one entry too many into a page
buildDirTree_WideLeaf(P, es) ==
    IF Len(es) = 0 \/ P.S.status # OK THEN [page |-> << >>, P |-> P]
    ELSE With(dirPageAddrProvider(P), LAMBDA a :
           IF a.P.S.status # OK THEN [page |-> << >>, P |-> a.P]
           ELSE IF Len(es) <= dirPgSize + 1
           THEN [page |-> << [addr |-> a.addr, p0 |-> << >>, entries |-> es] >>,
                 P |-> a.P]
           ELSE With((Len(es) + dirPgSize) \div (dirPgSize + 1), LAMBDA bs :
                  buildBuckets(a.P, es, IF bs < dirPgSize THEN dirPgSize ELSE bs,
                               0, 0,
                               [addr |-> a.addr, p0 |-> << >>, entries |-> << >>])))

buildDirTree(P, es) ==
    IF Len(es) = 0 \/ P.S.status # OK THEN [page |-> << >>, P |-> P]
    ELSE With(dirPageAddrProvider(P), LAMBDA a :
           IF a.P.S.status # OK THEN [page |-> << >>, P |-> a.P]
           ELSE IF Len(es) <= dirPgSize
           THEN [page |-> << [addr |-> a.addr, p0 |-> << >>, entries |-> es] >>,
                 P |-> a.P]
           ELSE With((Len(es) + dirPgSize) \div (dirPgSize + 1), LAMBDA bs :
                  buildBuckets(a.P, es, IF bs < dirPgSize THEN dirPgSize ELSE bs,
                               0, 0,
                               [addr |-> a.addr, p0 |-> << >>, entries |-> << >>])))

\* writeDirectoryToDisk that keeps the old pages reserved and allocates every
\* page of the new tree
writeDirectoryToDisk_FreshPages(S, fls, pages) ==
    With(SortByName(fls), LAMBDA sorted :
    With(buildDirTree([S |-> S, old |-> << >>, next |-> 0, new |-> << >>], sorted),
         LAMBDA r :
    With(writeToDisk(r.P.S, r.page), LAMBDA S2 :
         [S |-> S2, files |-> sorted, root |-> r.page,
          dirPages |-> IF S2.status = OK THEN r.P.new ELSE pages])))

\* FileSystem.writeDirectoryToDisk: [S, files, dirPages, root], root being
\* rootDir
writeDirectoryToDisk(S, fls, pages) ==
    With(SortByName(fls), LAMBDA sorted :
    With(freeAll(S, pages, 1), LAMBDA S1 :
    With(buildDirTree([S |-> S1, old |-> pages, next |-> 0, new |-> << >>], sorted),
         LAMBDA r :
    With(writeToDisk(r.P.S, r.page), LAMBDA S2 :
         [S |-> S2, files |-> sorted, root |-> r.page,
          dirPages |-> IF S2.status = OK THEN r.P.new ELSE pages]))))

\* ------------------------------------------------------------------------
\* FileSystem: lookup, create, register, remove, list
\* ------------------------------------------------------------------------
NotFound == "absent"
InvalidHeader == "error: invalid file header"
Exists == "error: file already exists"
BadName == "error: bad file name"

isLetter(c) == (c >= 65 /\ c <= 90) \/ (c >= 97 /\ c <= 122)

isDigit(c) == c >= 48 /\ c <= 57

\* validateFilename without the test of the first byte
validateFilename_AnyFirstByte(nm) ==
    /\ ~(Len(nm) > fnLength)
    /\ ~(Len(nm) = 0)
    /\ \A i \in 1..Len(nm) : ~(~isLetter(nm[i]) /\ ~isDigit(nm[i]) /\ nm[i] # 46)

\* FileSystem.validateFilename: TRUE for the nil error
validateFilename(nm) ==
    /\ ~(Len(nm) > fnLength)
    /\ ~(Len(nm) = 0)
    /\ isLetter(nm[1])
    /\ \A i \in 1..Len(nm) : ~(~isLetter(nm[i]) /\ ~isDigit(nm[i]) /\ nm[i] # 46)

\* FileSystem.NewFileFromFileHeader: [status, file]
NewFileFromFileHeader(d, headerAddr) ==
    IF ~ValidAddr(headerAddr) THEN [status |-> BadSector, file |-> << >>]
    ELSE IF ~IsValid(GetSector(d, headerAddr))
        THEN [status |-> InvalidHeader, file |-> << >>]
    ELSE [status |-> OK,
          file |-> << [header |-> GetSector(d, headerAddr),
                       headerAddr |-> headerAddr] >>]

\* findFile whose scan starts at the second entry
findFile_SkipsFirst(fls, nm) ==
    IF \E i \in 2..Len(fls) : fls[i].name = nm
    THEN CHOOSE i \in 2..Len(fls) :
            /\ fls[i].name = nm
            /\ \A j \in 2..(i - 1) : fls[j].name # nm
    ELSE 0

\* FileSystem.findFile with the predicate of Find: the index of the first
\* entry of that name, 0 if none
findFile(fls, nm) ==
    IF \E i \in 1..Len(fls) : fls[i].name = nm
    THEN CHOOSE i \in 1..Len(fls) :
            /\ fls[i].name = nm
            /\ \A j \in 1..(i - 1) : fls[j].name # nm
    ELSE 0

\* Find whose predicate is entry.name != name
Find_InvertedPredicate(d, fls, nm) ==
    IF \E i \in 1..Len(fls) : fls[i].name # nm
    THEN NewFileFromFileHeader(
             d, fls[CHOOSE i \in 1..Len(fls) :
                       /\ fls[i].name # nm
                       /\ \A j \in 1..(i - 1) : fls[j].name = nm].adr)
    ELSE [status |-> NotFound, file |-> << >>]

\* FileSystem.Find: [status, file]; status "absent" is the (nil, nil) return
Find(d, fls, nm) ==
    With(findFile(fls, nm), LAMBDA i :
      IF i = 0 THEN [status |-> NotFound, file |-> << >>]
      ELSE NewFileFromFileHeader(d, fls[i].adr))

\* FileSystem.ListFiles with AllFiles: [status, files]; an entry whose header
\* is invalid yields a nil *File (<< >>) in the list
RECURSIVE ListFiles(_, _, _)
ListFiles(d, fls, i) ==
    IF i > Len(fls) THEN [status |-> OK, files |-> << >>]
    ELSE With(NewFileFromFileHeader(d, fls[i].adr), LAMBDA f :
           IF f.status = BadSector THEN [status |-> BadSector, files |-> << >>]
           ELSE With(ListFiles(d, fls, i + 1), LAMBDA rest :
                  IF rest.status # OK THEN rest
                  ELSE [status |-> OK, files |-> << f.file >> \o rest.files]))

NameTooLong == "panic: name too long"

\* fileHeader.setName: [status, hdr]
setName(hdr, nm) ==
    IF Len(nm) > fnLength THEN [status |-> NameTooLong, hdr |-> hdr]
    ELSE [status |-> OK,
          hdr |-> [hdr EXCEPT ![ofsFilename] = WriteFixedLengthString(nm, 1)]]

\* the header FileSystem.NewFile writes
NewHeader(nm, headerAddr) ==
    [ZeroSector EXCEPT ![ofsMark] = headerMark,
                       ![ofsFilename] = WriteFixedLengthString(nm, 1),
                       ![ofsAleng] = 0,
                       ![ofsBleng] = headerSize,
                       ![ofsSecTable] = headerAddr]

\* FileSystem.Insert as File.Register calls it: [status, files]
Insert(d, fls, f) ==
    With(Find(d, fls, name(f.header)), LAMBDA existing :
      IF existing.status = NotFound
      THEN [status |-> OK,
            files |-> Append(fls, [name |-> name(f.header),
                                   adr |-> f.headerAddr, p |-> << >>])]
      ELSE IF existing.status = OK THEN [status |-> Exists, files |-> fls]
      ELSE [status |-> existing.status, files |-> fls])

\* File.Register: [status, files]
Register(d, fls, f) ==
    With(Find(d, fls, name(f.header)), LAMBDA existingFile :
      IF existingFile.status = NotFound THEN Insert(d, fls, f)
      ELSE IF existingFile.status = OK THEN [status |-> Exists, files |-> fls]
      ELSE [status |-> existingFile.status, files |-> fls])

\* Remove that deletes the first entry of the list, whatever its name
Remove_DeletesFirst(fls, nm) == IF Len(fls) = 0 THEN fls ELSE Tail(fls)

\* FileSystem.Remove: delete the directory entry of that name
Remove(fls, nm) == SelectSeq(fls, LAMBDA e : e.name # nm)

\* ------------------------------------------------------------------------
\* State
\* ------------------------------------------------------------------------
VARIABLES
    disk,                  \* the image: raw sector number -> sector
    sectorReservationMap,  \* FileSystem.sectorReservationMap: the set bits
    numUsedSectors,        \* FileSystem.numUsedSectors
    files,                 \* FileSystem.files
    dirPages,              \* FileSystem.dirPages
    filesDirty,            \* FileSystem.filesDirty
    handles,               \* the File objects of the session
    phase,                 \* "open", "closed" (after Close), "crashed"
    steps,                 \* operations so far
    last,                  \* the last operation, its inputs and its outcome
    snap,                  \* what the directory held when Close was called
    dev,                   \* the image file as disk.Open reads it
    drive,                 \* the *Disk disk.Open returns
    requests               \* the bridge requests in flight, one per goroutine

vars == << disk, sectorReservationMap, numUsedSectors, files, dirPages,
           filesDirty, handles, phase, steps, last, snap, dev, drive, requests >>

\* what the sessions of one caller on an opened partition leave alone
diskVars == << dev, drive, requests >>

fsVars == << sectorReservationMap, numUsedSectors, files, dirPages, filesDirty >>

\* the names "A", "B", ...
Names == {<< 64 + k >> : k \in 1..NumNames}

\* rand.Uint32() % (Size/29) * 29: the hints of NewFile and ensureSize
RandHints == {k * SectorMultiplier : k \in 0..(nummax - 1)}

\* hints offered to AllocSector directly: none, every sector, the sector past
\* the end, an address that is no multiple of 29, an address out of range
AllocHints == {k * SectorMultiplier : k \in 0..(nummax + 1)}
              \cup {SectorMultiplier + 1, (nummax + 3) * SectorMultiplier}

\* the data string written at pos: length len, bytes 1..3 in a pattern that
\* depends on pos
Data(len, pos) == [i \in 1..len |-> 1 + ((i + pos) % 3)]

\* an image as the Oberon system leaves it: an empty root page at address 29
\* and a persisted map index in the last sector
FormattedImage ==
    [s \in 1..nummax |->
        IF s = 1 THEN asSector([addr |-> dirRootAdr, p0 |-> << >>, entries |-> << >>])
        ELSE IF s = nummax THEN [ZeroSector EXCEPT ![0] = mapMark]
        ELSE ZeroSector]

\* the handler state of the running session
Cur(hdr) == [disk |-> disk, map |-> sectorReservationMap, used |-> numUsedSectors,
             hdr |-> hdr, status |-> OK]

\* the (name, size, contents) triple of the file at header address adr, as
\* NewFileFromFileHeader and ReadAt deliver it
FileTriple(d, nm, f) ==
    IF f.status # OK THEN [name |-> nm, size |-> 0, contents |-> << >>, ok |-> FALSE]
    ELSE With(ReadAt(d, f.file[1].header, 0, Size(f.file[1].header)), LAMBDA r :
           [name |-> nm, size |-> Size(f.file[1].header),
            contents |-> r.data, ok |-> r.status = OK])

TripleOf(d, e) ==
    With(NewFileFromFileHeader(d, e.adr), LAMBDA f : FileTriple(d, e.name, f))

\* the (name, size, contents) triples of the directory
Triples(d, fls) == {TripleOf(d, fls[i]) : i \in 1..Len(fls)}

Init ==
    \E r \in {FsInit(FormattedImage)} :
        /\ disk = r.disk
        /\ sectorReservationMap = r.map
        /\ numUsedSectors = r.used
        /\ files = r.files
        /\ dirPages = r.dirPages
        /\ filesDirty = FALSE
        /\ handles = << >>
        /\ phase = "open"
        /\ steps = 0
        /\ last = [op |-> "New", status |-> r.status]
        /\ snap = [taken |-> FALSE]
        /\ dev = << >> /\ drive = << >> /\ requests = << >>

\* what every operation of a running session does besides its own effect
Ready(bound) == phase = "open" /\ steps < bound

Step(st) ==
    /\ steps' = steps + 1
    /\ UNCHANGED diskVars
    /\ phase' = IF st = OK \/ ~(st \in {DiskFull, Hang, NotMultiple, IndexOutOfRange,
                                       BadSector, FileTooLarge, IndexBlockMissing,
                                       NilDeref, LoadError, NameTooLong})
                THEN "open" ELSE "crashed"

\* ------------------------------------------------------------------------
\* Operations
\* ------------------------------------------------------------------------
\* fs.AllocSector(hint)
AllocSectorOp(hint, bound) ==
    /\ Ready(bound)
    /\ \E a \in {AllocSector(sectorReservationMap, hint)} :
        /\ \E S \in {IF a.status = OK THEN AllocMark(Cur(ZeroSector), a.sec)
                     ELSE Cur(ZeroSector)} :
            /\ sectorReservationMap' = S.map
            /\ numUsedSectors' = S.used
        /\ last' = [op |-> "AllocSector", hint |-> hint, status |-> a.status,
                    sec |-> a.sec, preMap |-> sectorReservationMap,
                    preUsed |-> numUsedSectors]
        /\ Step(a.status)
    /\ UNCHANGED << disk, files, dirPages, filesDirty, handles, snap >>

\* fs.FreeSector(addr)
FreeSectorOp(addr, bound) ==
    /\ Ready(bound)
    /\ \E S \in {FreeSector(Cur(ZeroSector), addr)} :
        /\ sectorReservationMap' = S.map
        /\ numUsedSectors' = S.used
        /\ last' = [op |-> "FreeSector", addr |-> addr, status |-> S.status,
                    afterAlloc |-> (last.op = "AllocSector" /\ last.status = OK
                                    /\ last.sec = addr),
                    preMap |-> IF last.op = "AllocSector" THEN last.preMap
                               ELSE sectorReservationMap,
                    preUsed |-> IF last.op = "AllocSector" THEN last.preUsed
                                ELSE numUsedSectors]
        /\ Step(S.status)
    /\ UNCHANGED << disk, files, dirPages, filesDirty, handles, snap >>

\* the caller keeps the MaxHandles most recent File objects
Keep(f) ==
    IF Len(handles) < MaxHandles THEN Append(handles, f)
    ELSE Append(Tail(handles), f)

\* NewFile that also enters the new File in fs.files
NewFileOp_AlsoInserts(nm, hint, bound) ==
    /\ Ready(bound)
    /\ \E a \in {AllocSector(sectorReservationMap, hint)} :
       \E st \in {IF ~validateFilename(nm) THEN BadName ELSE a.status} :
        /\ IF st = OK
           THEN \E S \in {PutSectorS(AllocMark(Cur(ZeroSector), a.sec), a.sec,
                                     NewHeader(nm, a.sec))} :
                /\ disk' = S.disk
                /\ sectorReservationMap' = S.map
                /\ numUsedSectors' = S.used
                /\ handles' = Keep([header |-> NewHeader(nm, a.sec),
                                    headerAddr |-> a.sec])
                /\ files' = Append(files, [name |-> nm, adr |-> a.sec, p |-> << >>])
                /\ filesDirty' = TRUE
           ELSE UNCHANGED << disk, sectorReservationMap, numUsedSectors, handles,
                             files, filesDirty >>
        /\ last' = [op |-> "NewFile", name |-> nm, status |-> st, sec |-> a.sec]
        /\ Step(st)
    /\ UNCHANGED << dirPages, snap >>

\* fs.NewFile(nm), hint being the random number it draws
NewFileOp(nm, hint, bound) ==
    /\ Ready(bound)
    /\ \E a \in {AllocSector(sectorReservationMap, hint)} :
       \E st \in {IF ~validateFilename(nm) THEN BadName ELSE a.status} :
        /\ IF st = OK
           THEN \E S \in {PutSectorS(AllocMark(Cur(ZeroSector), a.sec), a.sec,
                                     NewHeader(nm, a.sec))} :
                /\ disk' = S.disk
                /\ sectorReservationMap' = S.map
                /\ numUsedSectors' = S.used
                /\ handles' = Keep([header |-> NewHeader(nm, a.sec),
                                    headerAddr |-> a.sec])
           ELSE UNCHANGED << disk, sectorReservationMap, numUsedSectors, handles >>
        /\ last' = [op |-> "NewFile", name |-> nm, status |-> st, sec |-> a.sec]
        /\ Step(st)
    /\ UNCHANGED << files, dirPages, filesDirty, snap >>

\* fs.Find(nm); the caller keeps the File it gets
FindOp(nm, bound) ==
    /\ Ready(bound)
    /\ \E r \in {Find(disk, files, nm)} :
        /\ handles' = IF r.status = OK THEN Keep(r.file[1]) ELSE handles
        /\ last' = [op |-> "Find", name |-> nm, status |-> r.status, file |-> r.file]
        /\ Step(r.status)
    /\ UNCHANGED << disk, fsVars, snap >>

\* fs.ListFiles(AllFiles)
ListFilesOp(bound) ==
    /\ Ready(bound)
    /\ \E r \in {ListFiles(disk, files, 1)} :
        /\ last' = [op |-> "ListFiles", status |-> r.status, files |-> r.files]
        /\ Step(r.status)
    /\ UNCHANGED << disk, fsVars, handles, snap >>

\* handles[h].Register()
RegisterOp(h, bound) ==
    /\ Ready(bound)
    /\ \E r \in {Register(disk, files, handles[h])} :
        /\ files' = r.files
        /\ filesDirty' = IF r.status = OK THEN TRUE ELSE filesDirty
        /\ last' = [op |-> "Register", h |-> h, status |-> r.status,
                    preFiles |-> files, preDirty |-> filesDirty]
        /\ Step(r.status)
    /\ UNCHANGED << disk, sectorReservationMap, numUsedSectors, dirPages,
                    handles, snap >>

\* fs.Remove(nm)
RemoveOp(nm, bound) ==
    /\ Ready(bound)
    /\ files' = Remove(files, nm)
    /\ filesDirty' = IF findFile(files, nm) # 0 THEN TRUE ELSE filesDirty
    /\ last' = [op |-> "Remove", name |-> nm, status |-> OK,
                removed |-> findFile(files, nm) # 0, preFiles |-> files]
    /\ Step(OK)
    /\ UNCHANGED << disk, sectorReservationMap, numUsedSectors, dirPages,
                    handles, snap >>

\* handles[h].WriteAt(pos, data), hints being the random numbers it draws
WriteAtOp(h, pos, data, hints, bound) ==
    /\ Ready(bound)
    /\ \E S \in {WriteAt(Cur(handles[h].header), handles[h].headerAddr, pos, data,
                         hints)} :
        /\ disk' = S.disk
        /\ sectorReservationMap' = S.map
        /\ numUsedSectors' = S.used
        /\ handles' = [handles EXCEPT ![h].header = S.hdr]
        /\ last' = [op |-> "WriteAt", h |-> h, pos |-> pos, data |-> data,
                    status |-> S.status, preSize |-> Size(handles[h].header)]
        /\ Step(S.status)
    /\ UNCHANGED << files, dirPages, filesDirty, snap >>

\* handles[h].SetName(nm)
SetNameOp(h, nm, bound) ==
    /\ Ready(bound)
    /\ \E n \in {setName(handles[h].header, nm)} :
       \E S \in {IF n.status # OK THEN Fail(Cur(n.hdr), n.status)
                 ELSE MustPutSectorS(Cur(n.hdr), handles[h].headerAddr, n.hdr)} :
        /\ disk' = S.disk
        /\ handles' = [handles EXCEPT ![h].header = S.hdr]
        /\ last' = [op |-> "SetName", h |-> h, name |-> nm, status |-> S.status]
        /\ Step(S.status)
    /\ UNCHANGED << fsVars, snap >>

\* handles[h].ReadAt(pos, len)
ReadAtOp(h, pos, len, bound) ==
    /\ Ready(bound)
    /\ \E r \in {ReadAt(disk, handles[h].header, pos, len)} :
        /\ last' = [op |-> "ReadAt", h |-> h, pos |-> pos, len |-> len,
                    status |-> r.status, data |-> r.data,
                    size |-> Size(handles[h].header)]
        /\ Step(r.status)
    /\ UNCHANGED << disk, fsVars, handles, snap >>

\* fs.Close(), the end of the session
CloseOp(bound) ==
    /\ phase = "open"
    /\ steps < bound
    /\ \E W \in {IF filesDirty
                 THEN writeDirectoryToDisk(Cur(ZeroSector), files, dirPages)
                 ELSE [S |-> Cur(ZeroSector), files |-> files, root |-> << >>,
                       dirPages |-> dirPages]} :
        /\ disk' = W.S.disk
        /\ sectorReservationMap' = W.S.map
        /\ numUsedSectors' = W.S.used
        /\ files' = W.files
        /\ dirPages' = W.dirPages
        /\ filesDirty' = IF W.S.status = OK THEN FALSE ELSE filesDirty
        /\ phase' = IF W.S.status = OK THEN "closed" ELSE "crashed"
        /\ last' = [op |-> "Close", status |-> W.S.status, wasDirty |-> filesDirty,
                    root |-> W.root]
        /\ snap' = [taken |-> W.S.status = OK,
                    triples |-> Triples(disk, files),
                    names |-> [i \in 1..Len(files) |-> files[i].name],
                    pages |-> Len(dirPages)]
    /\ steps' = steps + 1
    /\ UNCHANGED diskVars
    /\ handles' = << >>

\* filesystem.New on the image a closed or crashed session left behind
OpenOp(bound) ==
    /\ phase \in {"closed", "crashed"}
    /\ steps < bound
    /\ \E r \in {FsInit(disk)} :
        /\ disk' = r.disk
        /\ sectorReservationMap' = r.map
        /\ numUsedSectors' = r.used
        /\ files' = r.files
        /\ dirPages' = r.dirPages
        /\ phase' = IF r.status = OK THEN "open" ELSE "crashed"
        /\ last' = [op |-> "Open", status |-> r.status,
                    afterClose |-> (phase = "closed" /\ snap.taken)]
    /\ steps' = steps + 1
    /\ UNCHANGED diskVars
    /\ filesDirty' = FALSE
    /\ handles' = << >>
    /\ UNCHANGED snap

\* the addresses offered to FreeSector
FreeAddrs == {k * SectorMultiplier : k \in 1..(nummax + 1)}

MaxAllocSteps == nummax + 1

NextAlloc ==
    \/ \E hint \in AllocHints : AllocSectorOp(hint, MaxAllocSteps)
    \/ \E addr \in FreeAddrs : FreeSectorOp(addr, MaxAllocSteps)

SpecAlloc == Init /\ [][NextAlloc]_vars

\* ------------------------------------------------------------------------
\* The allocator (C5 - C9), under SpecAlloc
\* ------------------------------------------------------------------------
Allocated == last.op = "AllocSector" /\ last.status = OK

\* the raw sectors free before the last AllocSector
FreeBefore == {s \in 1..nummax : ~BitSetTest(last.preMap, s)}

\* C5: AllocSector never returns an address whose bit was set in the
\* reservation map when it was called, and on return the bit of the returned
\* address is set.
C5_AllocReturnsFreeAndMarks ==
    Allocated =>
        /\ ~BitSetTest(last.preMap, last.sec \div SectorMultiplier)
        /\ BitSetTest(sectorReservationMap, last.sec \div SectorMultiplier)

\* an allocation with a hint that had to skip reserved sectors
C5_Witness ==
    /\ Allocated
    /\ last.hint # 0
    /\ last.sec # last.hint + SectorMultiplier
    /\ Cardinality(last.preMap) >= 3

\* C6: AllocSector(hint) returning a, followed at once by FreeSector(a),
\* leaves the reservation map and numUsedSectors as they were before the
\* allocation.
C6_AllocFreeRestores ==
    (last.op = "FreeSector" /\ last.afterAlloc /\ last.status = OK) =>
        /\ sectorReservationMap = last.preMap
        /\ numUsedSectors = last.preUsed

\* an allocation undone by FreeSector, on a map with several sectors in use
C6_Witness ==
    /\ last.op = "FreeSector" /\ last.afterAlloc /\ last.status = OK
    /\ Cardinality(last.preMap) >= 3

\* C7: every address AllocSector returns is a multiple of 29 in
\* [29, size*29], for every hint it accepts, size*29 included.
C7_AllocReturnsValidAddress == Allocated => ValidAddr(last.sec)

\* C8: when every sector in [1, size] is reserved, AllocSector ends with
\* "Disk full" for every hint (0 and out-of-range hints included); it never
\* searches forever.
C8_FullDiskIsDiskFull ==
    (last.op = "AllocSector" /\ last.hint % SectorMultiplier = 0 /\ FreeBefore = {})
        => last.status = DiskFull

\* the first free raw sector in cyclic order from the one after the hint
FirstFreeAfter(h) ==
    CHOOSE s \in FreeBefore :
        \A t \in FreeBefore :
            (s - (h \div SectorMultiplier) - 1) % nummax
                <= (t - (h \div SectorMultiplier) - 1) % nummax

\* C9: AllocSector(hint) returns the first free address in cyclic order
\* from hint + 29 and reports "Disk full" only when no sector in [1, size]
\* is free; it succeeds when the hint sector is the only free one.  (Stated
\* for the hints 0 and 29 .. (size-1)*29; C7 is about the hint size*29.)
C9_AllocFirstFreeCyclic ==
    (last.op = "AllocSector" /\ last.hint % SectorMultiplier = 0
        /\ last.hint < DiskSize /\ FreeBefore # {})
        => /\ last.status = OK
           /\ last.sec = FirstFreeAfter(last.hint) * SectorMultiplier

\* ------------------------------------------------------------------------
\* Reading and writing files (C1, C2), under SpecFile
\* ------------------------------------------------------------------------
\* the logical position at which file sector k starts (1696 for k = 1)
SectorStart(k) == k * sectorSize - headerSize

\* positions offered: the first ones, and the start of the first data sector
\* and of the first sector behind the sector table
Positions == (0..MaxPos) \cup {SectorStart(k) : k \in {1, secTabSize}}

\* lengths offered: short ones, a full sector, and one that spans the rest
\* of a sector, a full sector and the start of the next
Lengths == (0..MaxLen) \cup {sectorSize, sectorSize + 2}

\* the random numbers of one ensureSize call: the first allocation searches
\* from the first or from the last sector, the next from the first
HintSeqs == {<< a, 0 >> : a \in {0, (nummax - 1) * SectorMultiplier}}

MaxFileSteps == 3

NextFile ==
    \/ \E hint \in RandHints : NewFileOp(<< 65 >>, hint, MaxFileSteps)
    \/ \E h \in 1..Len(handles), pos \in Positions, len \in Lengths,
          hints \in HintSeqs :
            WriteAtOp(h, pos, Data(len, pos), hints, MaxFileSteps)
    \/ \E h \in 1..Len(handles), pos \in Positions, len \in Lengths :
            ReadAtOp(h, pos, len, MaxFileSteps)

SpecFile == Init /\ [][NextFile]_vars

\* C1: after handles[h].WriteAt(pos, data) has returned, ReadAt(pos,
\* len(data)) on the same File returns exactly data.
C1_WriteReadRoundTrip ==
    (last.op = "WriteAt" /\ last.status = OK) =>
        ReadAt(disk, handles[last.h].header, last.pos, Len(last.data))
            = [status |-> OK, data |-> last.data]

\* a write that starts in the header sector, fills a sector of the sector
\* table and ends in a sector reached through an index block
C1_Witness ==
    /\ last.op = "WriteAt" /\ last.status = OK
    /\ physicalPos(last.pos).sector = 0
    /\ physicalPos(last.pos + Len(last.data) - 1).sector >= secTabSize
    /\ Len(getExtensionTable(handles[last.h].header)) >= 1

\* C2: ReadAt(pos, l) returns exactly min(l, max(0, size - pos)) bytes, also
\* for pos = size and pos > size, where it returns no bytes and does not
\* fail.
C2_ReadLength ==
    last.op = "ReadAt" =>
        /\ last.status = OK
        /\ Len(last.data) = Min(last.len, Max(0, last.size - last.pos))

\* ------------------------------------------------------------------------
\* The directory of a running session (C10), under SpecDir
\* ------------------------------------------------------------------------
\* the random numbers offered to NewFile: the search starts at the first or
\* at the last sector
FileHints == {0, (nummax - 1) * SectorMultiplier}

MaxDirSteps == 5

NextDir ==
    \/ \E nm \in Names, hint \in FileHints : NewFileOp(nm, hint, MaxDirSteps)
    \/ \E h \in 1..Len(handles) : RegisterOp(h, MaxDirSteps)
    \/ \E nm \in Names : RemoveOp(nm, MaxDirSteps)
    \/ \E nm \in Names : FindOp(nm, MaxDirSteps)
    \/ ListFilesOp(MaxDirSteps)

SpecDir == Init /\ [][NextDir]_vars

\* the name of the i-th File of a list, "" for a nil File
ListedName(lst, i) ==
    IF lst[i] = << >> THEN << >> ELSE name(lst[i][1].header)

\* a linear scan of a list for the name nm: the index of the first File of
\* that name, 0 if none
ScanList(lst, nm) ==
    IF \E i \in 1..Len(lst) : ListedName(lst, i) = nm
    THEN CHOOSE i \in 1..Len(lst) :
            /\ ListedName(lst, i) = nm
            /\ \A j \in 1..(i - 1) : ListedName(lst, j) # nm
    ELSE 0

\* C10: in every state a sequence of NewFile, Register and Remove reaches,
\* for every name n: Find(n) returns a File exactly if a linear scan of
\* ListFiles() meets a File named n, and then both have the same header
\* address.
C10_FindAgreesWithList ==
    phase = "open" =>
        \A nm \in Names :
            LET r == Find(disk, files, nm)
                l == ListFiles(disk, files, 1)
                i == ScanList(l.files, nm)
            IN  /\ l.status = OK
                /\ (r.status = OK) <=> (i # 0)
                /\ (r.status = OK) =>
                       r.file[1].headerAddr = l.files[i][1].headerAddr

\* a directory of two files of which Remove deleted one: a name is found,
\* another is not
C10_Witness ==
    /\ last.op = "Remove" /\ last.removed
    /\ Len(last.preFiles) >= 2
    /\ \E nm \in Names : Find(disk, files, nm).status = OK
    /\ \E nm \in Names : Find(disk, files, nm).status = NotFound


\* ------------------------------------------------------------------------
\* Close and re-open (C3, C4), under SpecPersist
\* ------------------------------------------------------------------------
\* dirNode.Create of the FUSE bridge: Find, NewFile, Register
CreateOp(nm, hint, bound) ==
    /\ Ready(bound)
    /\ \E e \in {Find(disk, files, nm)} :
       \E a \in {AllocSector(sectorReservationMap, hint)} :
       \E st \in {IF e.status = OK THEN Exists
                  ELSE IF e.status # NotFound THEN e.status
                  ELSE IF ~validateFilename(nm) THEN BadName
                  ELSE a.status} :
        /\ IF st = OK
           THEN \E S \in {PutSectorS(AllocMark(Cur(ZeroSector), a.sec), a.sec,
                                     NewHeader(nm, a.sec))} :
                \E f \in {[header |-> NewHeader(nm, a.sec), headerAddr |-> a.sec]} :
                \E r \in {Register(S.disk, files, f)} :
                /\ disk' = S.disk
                /\ sectorReservationMap' = S.map
                /\ numUsedSectors' = S.used
                /\ handles' = Keep(f)
                /\ files' = r.files
                /\ filesDirty' = IF r.status = OK THEN TRUE ELSE filesDirty
           ELSE UNCHANGED << disk, sectorReservationMap, numUsedSectors, handles,
                             files, filesDirty >>
        /\ last' = [op |-> "Create", name |-> nm, status |-> st, sec |-> a.sec]
        /\ Step(st)
    /\ UNCHANGED << dirPages, snap >>

\* data offered to WriteAt before a Close: a byte, and a string that fills
\* the header sector and the sector after it
PersistLengths == {1, 2 * sectorSize - headerSize}

MaxPersistSteps == 5

NextPersist ==
    \/ \E nm \in Names, hint \in FileHints : CreateOp(nm, hint, MaxPersistSteps)
    \/ \E h \in 1..Len(handles), len \in PersistLengths :
            WriteAtOp(h, 0, Data(len, 0), << 0 >>, MaxPersistSteps)
    \/ \E nm \in Names : RemoveOp(nm, MaxPersistSteps)
    \/ CloseOp(MaxPersistSteps)
    \/ OpenOp(MaxPersistSteps)

SpecPersist == Init /\ [][NextPersist]_vars

\* the session was opened on the image a successful Close left
Reopened == last.op = "Open" /\ last.afterClose

\* C3: Close followed by New on the same image yields exactly the (name,
\* size, contents) triples the directory held before Close.
C3_PersistsAcrossCloseOpen ==
    Reopened =>
        /\ last.status = OK
        /\ Triples(disk, files) = snap.triples

\* the depth of a directory tree: 0 for nil, 1 for a page without subtrees
RECURSIVE PageDepth(_)
PageDepth(dp) ==
    IF Len(dp) = 0 THEN 0
    ELSE LET sub == {PageDepth(dp[1].p0)}
                    \cup {PageDepth(dp[1].entries[i].p) : i \in 1..Len(dp[1].entries)}
         IN  1 + (CHOOSE m \in sub : \A k \in sub : k <= m)

\* C4: after Close and New, ListFiles returns exactly the names the
\* directory held before Close, each once, in ascending order; with more
\* names than a page holds, the tree on disk has depth at least 2.
C4_ListSortedAfterReopen ==
    Reopened =>
        LET l == ListFiles(disk, files, 1)
            n == Len(l.files)
        IN  /\ last.status = OK
            /\ l.status = OK
            /\ {ListedName(l.files, i) : i \in 1..n}
                   = {snap.names[i] : i \in 1..Len(snap.names)}
            /\ \A i \in 1..n : \A j \in (i + 1)..n :
                   StrLess(ListedName(l.files, i), ListedName(l.files, j))
            /\ (Len(snap.names) > dirPgSize =>
                   PageDepth(loadDirFromDisk(disk, dirRootAdr, {}).page) >= 2)

\* ------------------------------------------------------------------------
\* Register (C11), under SpecDir
\* ------------------------------------------------------------------------
\* no two entries of the list carry the same name
NoDuplicateNames(fls) ==
    \A i \in 1..Len(fls) : \A j \in 1..Len(fls) :
        fls[i].name = fls[j].name => i = j

\* the list held an entry of that name
HasName(fls, nm) == \E i \in 1..Len(fls) : fls[i].name = nm

\* C11: fs.files never holds two entries of the same name; Register appends
\* the File exactly if no entry of its name exists, and when one exists it
\* returns an error and leaves fs.files and filesDirty as they were.
C11_RegisterKeepsNamesUnique ==
    /\ NoDuplicateNames(files)
    /\ last.op = "Register" =>
           IF HasName(last.preFiles, name(handles[last.h].header))
           THEN /\ last.status # OK
                /\ files = last.preFiles
                /\ filesDirty = last.preDirty
           ELSE /\ last.status = OK
                /\ files = Append(last.preFiles,
                                  [name |-> name(handles[last.h].header),
                                   adr |-> handles[last.h].headerAddr,
                                   p |-> << >>])
                /\ filesDirty

\* a Register refused because another File of that name is registered
C11_Witness ==
    /\ last.op = "Register" /\ last.status = Exists
    /\ \E i \in 1..Len(files) :
          /\ files[i].name = name(handles[last.h].header)
          /\ files[i].adr # handles[last.h].headerAddr

\* ------------------------------------------------------------------------
\* NewFile (C12), under SpecDir
\* ------------------------------------------------------------------------
\* the step just taken is a NewFile that returned a File
NewFileReturned == steps' = steps + 1 /\ last'.op = "NewFile" /\ last'.status = OK

\* the names of the Files a ListFiles result holds
ListedNames(l) == {ListedName(l.files, i) : i \in 1..Len(l.files)}

\* C12: NewFile(n) does not enter the File in the directory: fs.files and
\* filesDirty are as before, so that Find(n) is absent and ListFiles() holds
\* no File named n unless n was registered before; one bit of the
\* reservation map, free before, is set, and of the image only the sector of
\* that bit changes: it holds the new header.
C12_NewFileDoesNotRegister ==
    [][NewFileReturned =>
        /\ files' = files
        /\ filesDirty' = filesDirty
        /\ dirPages' = dirPages
        /\ Find(disk', files', last'.name) = Find(disk, files, last'.name)
        /\ ~HasName(files, last'.name) =>
               /\ Find(disk', files', last'.name).status = NotFound
               /\ ~(last'.name \in ListedNames(ListFiles(disk', files', 1)))
        /\ ~BitSetTest(sectorReservationMap, last'.sec \div SectorMultiplier)
        /\ sectorReservationMap'
               = BitSetSet(sectorReservationMap, last'.sec \div SectorMultiplier)
        /\ numUsedSectors' = numUsedSectors + 1
        /\ ValidAddr(last'.sec)
        /\ disk' = PutSector(disk, last'.sec, NewHeader(last'.name, last'.sec))
        /\ IsValid(GetSector(disk', last'.sec))
        /\ name(GetSector(disk', last'.sec)) = last'.name
    ]_vars

\* a NewFile of a name that is not registered, next to a registered File
C12_Witness ==
    /\ last.op = "NewFile" /\ last.status = OK
    /\ Len(files) >= 1
    /\ ~HasName(files, last.name)
    /\ Find(disk, files, last.name).status = NotFound
    /\ handles[Len(handles)].headerAddr = last.sec

\* ------------------------------------------------------------------------
\* File names (C13, C14), under SpecCreate
\* ------------------------------------------------------------------------
\* bytes at and next to the ends of the ranges validateFilename tests:
\* NUL, ' ', '-', '.', '/', '0', '9', ':', '@', 'A', 'Z', '[', '`', 'a', 'z',
\* '{', DEL
EdgeBytes == {0, 32, 45, 46, 47, 48, 57, 58, 64, 65, 90, 91, 96, 97, 122, 123, 127}

\* the name "AA...A" of n bytes
LetterName(n) == [i \in 1..n |-> 65]

\* names offered to NewFile: the empty name, every edge byte as the only
\* byte and as the last byte of a name that fills the field, and names one
\* byte shorter than the field, as long as the field and one byte longer
TestNames ==
    {<< >>}
    \cup {<< c >> : c \in EdgeBytes}
    \cup {[LetterName(fnLength) EXCEPT ![fnLength] = c] : c \in EdgeBytes}
    \cup {LetterName(n) : n \in (fnLength - 1)..(fnLength + 1)}

MaxCreateSteps == 3

NextCreate ==
    \/ \E nm \in Names, hint \in FileHints : NewFileOp(nm, hint, MaxCreateSteps - 1)
    \/ \E nm \in TestNames : NewFileOp(nm, 0, MaxCreateSteps)
    \/ \E h \in 1..Len(handles) : RegisterOp(h, MaxCreateSteps)

SpecCreate == Init /\ [][NextCreate]_vars

Letters == (65..90) \cup (97..122)
Digits == 48..57

\* the name is empty, or its first byte is no ASCII letter, or one of its
\* bytes is neither a letter nor a digit nor '.'
IllFormed(nm) ==
    \/ Len(nm) = 0
    \/ ~(nm[1] \in Letters)
    \/ \E i \in 1..Len(nm) : ~(nm[i] \in Letters \cup Digits \cup {46})

\* C13: NewFile(name) returns an error when name is empty, when its first
\* byte is no ASCII letter, or when one of its bytes is neither a letter nor
\* a digit nor '.'; then no sector is allocated: the reservation map,
\* numUsedSectors, fs.files and the image are as before.
C13_NewFileRejectsIllFormedNames ==
    [][(steps' = steps + 1 /\ last'.op = "NewFile" /\ IllFormed(last'.name)) =>
        /\ last'.status = BadName
        /\ UNCHANGED << disk, sectorReservationMap, numUsedSectors, files,
                        dirPages, filesDirty, handles >>
    ]_vars

\* a NewFile refused for a '/' as last byte, after a letter as first byte,
\* in a session that holds a registered File
C13_Witness ==
    /\ last.op = "NewFile" /\ last.status = BadName
    /\ Len(last.name) = fnLength
    /\ last.name[1] \in Letters /\ last.name[fnLength] = 47
    /\ Len(files) >= 1
    /\ Cardinality(sectorReservationMap) >= 3

\* C14: NewFile rejects every name of more than fnLength - 1 bytes (31 in
\* the source), so that the last byte of the name field of every header
\* NewFile has written is NUL.
C14_NameLeavesRoomForNul ==
    /\ (last.op = "NewFile" /\ Len(last.name) > fnLength - 1) => last.status = BadName
    /\ \A h \in 1..Len(handles) :
          handles[h].header[ofsFilename] % ByteBase = 0

\* ------------------------------------------------------------------------
\* Files of a running session (C15), under SpecSession
\* ------------------------------------------------------------------------
\* positions and lengths offered to WriteAt: a byte or more than a sector,
\* at the start of the file or at the start of its second sector
SessionPositions == {0, SectorStart(1)}
SessionLengths == {1, sectorSize + 2}

MaxSessionSteps == 4

NextSession ==
    \/ \E nm \in Names, hint \in FileHints : NewFileOp(nm, hint, MaxSessionSteps)
    \/ \E h \in 1..Len(handles), pos \in SessionPositions, len \in SessionLengths,
          hints \in HintSeqs :
            WriteAtOp(h, pos, Data(len, pos), hints, MaxSessionSteps)
    \/ \E h \in 1..Len(handles) : RegisterOp(h, MaxSessionSteps)

SpecSession == Init /\ [][NextSession]_vars

\* the entries of the index sectors of a header, in order
RECURSIVE IndexEntries(_, _, _)
IndexEntries(d, ext, i) ==
    IF i > Len(ext) THEN << >>
    ELSE (IF ValidAddr(ext[i]) THEN entries(GetSector(d, ext[i])) ELSE << >>)
         \o IndexEntries(d, ext, i + 1)

\* the sectors of the file with header hdr: the sector table (its first
\* entry is the header sector), the index sectors, the sectors they list
SectorsOf(d, hdr) ==
    getSectorTable(hdr) \o getExtensionTable(hdr)
        \o IndexEntries(d, getExtensionTable(hdr), 1)

\* the files of the session: those the caller holds a File of, with the
\* File's header, and those of the directory, with the header on disk
SessionFiles ==
    {[addr |-> handles[h].headerAddr, hdr |-> handles[h].header] :
        h \in 1..Len(handles)}
    \cup {[addr |-> files[i].adr, hdr |-> GetSector(disk, files[i].adr)] :
            i \in 1..Len(files)}

NoRepeat(q) == \A i \in 1..Len(q) : \A j \in 1..Len(q) : q[i] = q[j] => i = j

Elems(q) == {q[i] : i \in 1..Len(q)}

MaxReopenSteps == 5

NextReopen ==
    \/ \E nm \in Names, hint \in FileHints : CreateOp(nm, hint, MaxReopenSteps)
    \/ \E h \in 1..Len(handles), len \in SessionLengths, hints \in HintSeqs :
            WriteAtOp(h, 0, Data(len, 0), hints, MaxReopenSteps)
    \/ CloseOp(MaxReopenSteps)
    \/ OpenOp(MaxReopenSteps)

SpecReopen == Init /\ [][NextReopen]_vars

\* the bits of a set of sector addresses
BitsOf(addrs) == {a \div SectorMultiplier : a \in addrs}

\* the header sector of the directory entry e and the sectors its header on
\* disk lists
EntrySectors(e) ==
    {e.adr} \cup (IF ValidAddr(e.adr) THEN Elems(SectorsOf(disk, GetSector(disk, e.adr)))
                  ELSE {})

\* C16: right after New has returned, the bits set in the reservation map
\* are bit 0, the bits of the directory pages and, for every file of the
\* directory, the bits of its header sector, of the non-zero entries of its
\* sector table and extension table and of the non-zero entries of its
\* index sectors; no other bit is set.
C16_MapAfterOpen ==
    (last.op = "Open" /\ last.status = OK) =>
        sectorReservationMap
            = {0} \cup BitsOf(Elems(dirPages))
                  \cup UNION {BitsOf(EntrySectors(files[i])) : i \in 1..Len(files)}

\* an open that finds two files, one of them with an index sector that
\* lists a data sector
C16_Witness ==
    /\ last.op = "Open" /\ last.status = OK
    /\ Len(files) >= 2
    /\ Len(dirPages) >= 1
    /\ \E i \in 1..Len(files) :
          /\ Len(getExtensionTable(GetSector(disk, files[i].adr))) >= 1
          /\ Cardinality(EntrySectors(files[i])) >= secTabSize + 2

\* ------------------------------------------------------------------------
\* The length fields and the tables of a header (C17, C18), under SpecFile
\* ------------------------------------------------------------------------
\* C17: for every File, after NewFile and after every WriteAt: Size() is
\* aleng * sectorSize + bleng - headerSize, aleng >= 0 and bleng >=
\* headerSize (352 in the source), whatever the size modulo the sector size.
C17_LengthFields ==
    phase = "open" =>
        \A h \in 1..Len(handles) :
            /\ Size(handles[h].header)
                   = aleng(handles[h].header) * sectorSize
                         + bleng(handles[h].header) - headerSize
            /\ aleng(handles[h].header) >= 0
            /\ bleng(handles[h].header) >= headerSize

\* the non-zero entries of the extension table are its first entries
DensePrefix(hdr) ==
    \A i \in 0..(exTabSize - 1) :
        hdr[ofsExtTable + i] # 0 =>
            \A j \in 0..(i - 1) : hdr[ofsExtTable + j] # 0

\* C18: for every File, after every WriteAt, the header has min(aleng + 1,
\* secTabSize) non-zero sector-table entries (secTabSize is 64 in the
\* source), and the non-zero entries of its extension table are a prefix of
\* the table.
C18_TablesMatchLength ==
    phase = "open" =>
        \A h \in 1..Len(handles) :
            /\ Len(getSectorTable(handles[h].header))
                   = Min(aleng(handles[h].header) + 1, secTabSize)
            /\ DensePrefix(handles[h].header)

\* ------------------------------------------------------------------------
\* The largest file (C19), under SpecGrow
\* ------------------------------------------------------------------------
\* the sectors a file can list: 64 + 12 * 512 = 6208 in the source
MaxFileSectors == secTabSize + exTabSize * indexSize

\* positions offered: the start of the file, the start of its second
\* sector, and the positions whose physical position (pos + headerSize) is
\* just below and just above the modulus of uint32
GrowPositions == {0, SectorStart(1), U32 - headerSize - 2, U32 - 1}

MaxGrowSteps == 3

NextGrow ==
    \/ \E hint \in FileHints : NewFileOp(<< 65 >>, hint, MaxGrowSteps)
    \/ \E h \in 1..Len(handles), pos \in GrowPositions, len \in SessionLengths,
          hints \in HintSeqs :
            WriteAtOp(h, pos, Data(len, pos), hints, MaxGrowSteps)

SpecGrow == Init /\ [][NextGrow]_vars

\* the index of the file sector that holds the last byte of the last write
LastSectorWritten == (last.pos + Len(last.data) - 1 + headerSize) \div sectorSize

\* C19: a WriteAt that needs a file sector of index MaxFileSectors or more
\* ends with the panic "file too large", and no File ever lists more than
\* MaxFileSectors sectors or more than exTabSize index sectors.
C19_FileTooLarge ==
    /\ (last.op = "WriteAt" /\ LastSectorWritten >= MaxFileSectors)
           => last.status = FileTooLarge
    /\ \A h \in 1..Len(handles) :
          /\ Len(getExtensionTable(handles[h].header)) <= exTabSize
          /\ Len(getSectorTable(handles[h].header))
                 + Len(IndexEntries(disk, getExtensionTable(handles[h].header), 1))
                 <= MaxFileSectors
          /\ aleng(handles[h].header) + 1 <= MaxFileSectors

\* ------------------------------------------------------------------------
\* The root page (C20), under SpecPersist
\* ------------------------------------------------------------------------
\* Close has rebuilt the directory and the new tree has a root
Rebuilt ==
    /\ last.op = "Close" /\ last.status = OK /\ last.wasDirty
    /\ Len(last.root) > 0

C21_EmptyRootAfterClose ==
    /\ (last.op = "Close" /\ last.status = OK /\ Len(files) = 0) =>
            /\ GetSector(disk, dirRootAdr)[ofsMark] = dirMark
            /\ GetSector(disk, dirRootAdr)[ofsDirM] = 0
            /\ GetSector(disk, dirRootAdr)[ofsDirP0] = 0
    /\ (last.op = "Open" /\ last.afterClose /\ Len(snap.names) = 0) =>
            (last.status = OK /\ Len(files) = 0)

\* ------------------------------------------------------------------------
\* The dirty flag (C22), under SpecPersist
\* ------------------------------------------------------------------------
\* C22: the directory is clean after open; every successful register (alone
\* or as part of create) or remove sets the dirty flag; a close that returns
\* writes directory pages if and only if the flag was dirty, leaves the image
\* as it was when the flag was clean, and clears the flag.
C22_DirtyFlagLifecycle ==
    [][ /\ (last'.op = "Open" /\ last'.status = OK) => ~filesDirty'
        /\ (last'.op \in {"Register", "Create"} /\ last'.status = OK)
                => filesDirty'
        /\ (last'.op = "Remove" /\ last'.removed) => filesDirty'
        /\ (last'.op = "Close" /\ last'.status = OK) =>
                /\ filesDirty <=> Len(last'.root) > 0
                /\ ~filesDirty => disk' = disk
                /\ ~filesDirty'
      ]_vars

\* ------------------------------------------------------------------------
\* Opening an image another system left (C23, C25, C26), under SpecImage
\* ------------------------------------------------------------------------
\* a directory page of an image: its mark, m, p0 and its first entry
PageSector(mark, m, p0, nm, adr, p) ==
    [ZeroSector EXCEPT ![ofsMark] = mark, ![ofsDirM] = m, ![ofsDirP0] = p0,
                       ![dirHdrSize] = WriteFixedLengthString(nm, 1),
                       ![dirHdrSize + 1] = adr,
                       ![dirHdrSize + 2] = p]

\* the addresses of the second and third directory page and of the file
\* header of the images
Page2Adr == 2 * SectorMultiplier
Page3Adr == 3 * SectorMultiplier
HeaderAdr == 4 * SectorMultiplier

\* the images offered to New: a root page at 29, pages at Page2Adr and
\* Page3Adr, page pointers that form trees, shared subtrees and cycles,
\* directory and header marks that are right or wrong, and a persisted map
\* index with a payload in the last sector
Images ==
    { [s \in 1..nummax |->
        IF s = 1 THEN PageSector(rm, 1, rp0, << 65 >>, HeaderAdr, rp)
        ELSE IF s = 2 THEN PageSector(pm, 1, pp0, << 66 >>, HeaderAdr, pp)
        ELSE IF s = 3 THEN PageSector(dirMark, 1, 0, << 67 >>, HeaderAdr, 0)
        ELSE IF s = 4 THEN [NewHeader(<< 65 >>, HeaderAdr) EXCEPT ![ofsMark] = hm]
        ELSE IF s = nummax THEN [ZeroSector EXCEPT ![0] = mapMark, ![1] = mapMark]
        ELSE ZeroSector] :
      rm \in {dirMark, headerMark}, rp0 \in {0, dirRootAdr, Page2Adr},
      rp \in {0, Page2Adr, Page3Adr},
      pm \in {dirMark, 0}, pp0 \in {0, Page3Adr},
      pp \in {0, dirRootAdr, Page2Adr},
      hm \in {headerMark, dirMark} }

\* before New: an image on disk and no FileSystem yet
InitImage ==
    /\ disk \in Images
    /\ sectorReservationMap = {}
    /\ numUsedSectors = 0
    /\ files = << >>
    /\ dirPages = << >>
    /\ filesDirty = FALSE
    /\ handles = << >>
    /\ phase = "closed"
    /\ steps = 0
    /\ last = [op |-> "Image", status |-> OK]
    /\ snap = [taken |-> FALSE]
    /\ dev = << >> /\ drive = << >> /\ requests = << >>

MaxImageSteps == 3

NextImage ==
    \/ OpenOp(MaxImageSteps)
    \/ \E nm \in Names : FindOp(nm, MaxImageSteps)
    \/ ListFilesOp(MaxImageSteps)
    \/ \E hint \in FileHints : CreateOp(<< 68 >>, hint, MaxImageSteps)
    \/ \E h \in 1..Len(handles) :
            WriteAtOp(h, 0, Data(1, 0), << 0 >>, MaxImageSteps)
    \/ CloseOp(MaxImageSteps)

SpecImage == InitImage /\ [][NextImage]_vars

\* C23: an open leaves 0 in the mark of the sector at raw index size and
\* the other bytes of that sector as they were, and no step of the driver,
\* close included, leaves the map-index magic in the mark of that sector.
C23_MapIndexInvalidated ==
    [][ /\ last'.op = "Open" =>
                GetSector(disk', DiskSize)
                    = [GetSector(disk, DiskSize) EXCEPT ![ofsMark] = 0]
        /\ GetSector(disk', DiskSize)[ofsMark] # mapMark
      ]_vars

\* a session opened on an image with a map index, in which NewFile then
\* wrote a file header into the sector the map index was in
C23_Witness ==
    /\ last.op = "Create" /\ last.status = OK /\ last.sec = DiskSize
    /\ IsValid(GetSector(disk, DiskSize))

\* the page pointers (p0, then the pointer of each of the m entries) of the
\* directory page stored at addr that are not 0
PagePointers(d, addr) ==
    LET sec == GetSector(d, addr)
        ptrs == << sec[ofsDirP0] >>
                \o [i \in 1..(sec[ofsDirM] % U16) |->
                        sec[dirHdrSize + (i - 1) * dirEntrySize + 2]]
    IN  SelectSeq(ptrs, LAMBDA a : a # 0)

\* the page pointers of all pages of a list of page addresses
RECURSIVE AllPagePointers(_, _, _)
AllPagePointers(d, pages, i) ==
    IF i > Len(pages) THEN << >>
    ELSE PagePointers(d, pages[i]) \o AllPagePointers(d, pages, i + 1)

\* C25: the directory load of an open returns on every image, and when it
\* returns a directory no page address was reached twice: no page was
\* loaded twice, no two page pointers of the loaded pages name the same
\* page, and none names the root. An image in which an address is reached a
\* second time therefore makes the open fail.
C25_LoadRejectsRevisit ==
    (last.op = "Open" /\ last.status = OK) =>
        /\ NoRepeat(dirPages)
        /\ NoRepeat(AllPagePointers(disk, dirPages, 1))
        /\ ~(dirRootAdr \in Elems(AllPagePointers(disk, dirPages, 1)))

\* the open of an image whose root reaches the second page twice, through
\* p0 and through the pointer of its entry, has failed
C25_Witness ==
    /\ last.op = "Open" /\ last.status = LoadError
    /\ GetSector(disk, dirRootAdr)[ofsMark] = dirMark
    /\ GetSector(disk, Page2Adr)[ofsMark] = dirMark
    /\ PagePointers(disk, dirRootAdr) = << Page2Adr, Page2Adr >>
    /\ PagePointers(disk, Page2Adr) = << >>

\* the directory entries whose file header has a wrong mark
BadHeaders(d, fls) ==
    {i \in 1..Len(fls) : ~IsValid(GetSector(d, fls[i].adr))}

\* C26: every read of a directory page or a file header checks the mark. An
\* open that returns a directory has read only directory pages and file
\* headers with the right mark; find returns an error for a file whose
\* header has a wrong mark; list returns an error when the header of an
\* entry has a wrong mark.
C26_MarksChecked ==
    /\ (last.op = "Open" /\ last.status = OK) =>
            /\ \A i \in 1..Len(dirPages) :
                    GetSector(disk, dirPages[i])[ofsMark] = dirMark
            /\ BadHeaders(disk, files) = {}
    /\ (last.op = "Find" /\ findFile(files, last.name) \in BadHeaders(disk, files))
            => last.status = InvalidHeader
    /\ (last.op = "ListFiles" /\ BadHeaders(disk, files) # {})
            => last.status # OK

\* ------------------------------------------------------------------------
\* internal/disk: disk.Open, GetSector and PutSector on the image file
\*
\* The image file dev is [blocks, sectors]: blocks maps the byte position of
\* a 512-byte block that holds a partition table or a boot block to the
\* fields of that block the driver reads,
\*   [b0, b1, oberon, rootOffset, entries, b510, b511]
\* (bytes 0 and 1, bytes 3..8, the uint16 at 0x0E, the four partition entries
\* at 0x1BE as a sequence of [type, start, size], bytes 510 and 511), and
\* sectors maps the byte position of an Oberon sector to its contents.
\* ------------------------------------------------------------------------
bs == 512
bps == 4
oberonPartitionType == 79

ZeroBlock == [b0 |-> 0, b1 |-> 0, oberon |-> << 0, 0, 0, 0, 0, 0 >>,
              rootOffset |-> 0, entries |-> << >>, b510 |-> 0, b511 |-> 0]

\* Disk.getBlocks(start, 1, b, 0): Seek(int64(start*bs)) with the product
\* taken in uint32, then Read; a block past the end of the file is a short
\* read: [status, b]
getBlocks(f, start) ==
    With((start * bs) % U32, LAMBDA pos :
      IF pos \in DOMAIN f.blocks THEN [status |-> OK, b |-> f.blocks[pos]]
      ELSE [status |-> "error: short read", b |-> ZeroBlock])

isExtended(partitionType) == partitionType = 5 \/ partitionType = 15

\* the test of readPrimary and readLogical for a bad signature
SignatureBad(b) == ~(b.b510 = 85) /\ (b.b511 = 170)

\* Disk.readPrimary: [status, partitions]
readPrimary(f) ==
    With(getBlocks(f, 0), LAMBDA r :
      IF r.status # OK THEN [status |-> r.status, partitions |-> << >>]
      ELSE IF SignatureBad(r.b)
        THEN [status |-> "error: bad signature", partitions |-> << >>]
      ELSE [status |-> OK,
            partitions |-> SelectSeq(r.b.entries,
                               LAMBDA e : e.type # 0 /\ e.size # 0)])

\* Disk.readLogical, from the link at block sec on: [status, partitions]
RECURSIVE readLogical(_, _, _)
readLogical(f, first, sec) ==
    With(getBlocks(f, sec), LAMBDA r :
      IF r.status # OK THEN [status |-> r.status, partitions |-> << >>]
      ELSE IF SignatureBad(r.b)
        THEN [status |-> "error: bad signature", partitions |-> << >>]
      ELSE With(SelectSeq(r.b.entries,
                    LAMBDA e : e.type # 0 /\ ~isExtended(e.type) /\ e.size # 0),
                LAMBDA es :
           With([i \in 1..Len(es) |->
                    [es[i] EXCEPT !.start = (es[i].start + sec) % U32]], LAMBDA ps :
           With(SelectSeq(r.b.entries,
                    LAMBDA e : isExtended(e.type) /\ e.size # 0), LAMBDA nested :
             IF Len(nested) = 0 THEN [status |-> OK, partitions |-> ps]
             ELSE With(readLogical(f, first, (nested[1].start + first) % U32),
                       LAMBDA rest :
                    IF rest.status # OK THEN rest
                    ELSE [status |-> OK, partitions |-> ps \o rest.partitions])))))

\* the loop of Disk.readPartitionTable over the primary entries
RECURSIVE readPartitionTable(_, _, _)
readPartitionTable(f, parts, i) ==
    IF i > Len(parts) THEN [status |-> OK, partitions |-> << >>]
    ELSE With(IF isExtended(parts[i].type)
              THEN readLogical(f, parts[i].start, parts[i].start)
              ELSE [status |-> OK, partitions |-> << parts[i] >>], LAMBDA here :
           IF here.status # OK THEN here
           ELSE With(readPartitionTable(f, parts, i + 1), LAMBDA rest :
                  IF rest.status # OK THEN rest
                  ELSE [status |-> OK,
                        partitions |-> here.partitions \o rest.partitions]))

\* the *Disk of a failed Open
NoDisk(why) == [status |-> why, partitionOffset |-> 0, partitionLen |-> 0,
                rootOffset |-> 0, nummax |-> 0]

\* Disk.init once the partition table is read: the first Native Oberon
\* partition, its boot block, the root offset and nummax
initPartition(f, partitions) ==
    With(SelectSeq(partitions, LAMBDA q : q.type = oberonPartitionType), LAMBDA ob :
      IF Len(ob) = 0 THEN NoDisk("error: Oberon partition not found")
      ELSE With(getBlocks(f, ob[1].start).b, LAMBDA b :
        IF (b.b0 + 256 * b.b1) # 43605
           /\ ~(b.oberon = << 79, 66, 69, 82, 79, 78 >>)
        THEN NoDisk("error: bad boot block signature")
        ELSE IF ob[1].size <= 0 THEN NoDisk("error: invalid partition length")
        ELSE [status |-> OK, partitionOffset |-> ob[1].start,
              partitionLen |-> ob[1].size, rootOffset |-> b.rootOffset,
              nummax |-> ((ob[1].size + U32 - b.rootOffset) % U32) \div bps]))

\* disk.Open / Disk.init: the *Disk, or the error in status
DiskInit(f) ==
    With(readPrimary(f), LAMBDA prim :
      IF prim.status # OK THEN NoDisk(prim.status)
      ELSE With(readPartitionTable(f, prim.partitions, 1), LAMBDA pt :
             IF pt.status # OK THEN NoDisk(pt.status)
             ELSE initPartition(f, pt.partitions)))

\* the byte position GetSector and PutSector hand to Seek for raw sector src
SectorPos(d, src) ==
    ((((d.partitionOffset + d.rootOffset + (src - 1) * bps) % U32) * bs) % U32)

\* Disk.GetSector of the *Disk d on the file f: [status, sec]
DiskGetSector(f, d, src) ==
    IF src % SectorMultiplier # 0 THEN [status |-> NotMultiple, sec |-> 0]
    ELSE IF src \div SectorMultiplier < 1 \/ src \div SectorMultiplier > d.nummax
        THEN [status |-> BadSector, sec |-> 0]
    ELSE [status |-> OK, sec |-> f.sectors[SectorPos(d, src \div SectorMultiplier)]]

\* Disk.PutSector: [status, f]
DiskPutSector(f, d, src, sec) ==
    IF src % SectorMultiplier # 0 THEN [status |-> NotMultiple, f |-> f]
    ELSE IF src \div SectorMultiplier < 1 \/ src \div SectorMultiplier > d.nummax
        THEN [status |-> BadSector, f |-> f]
    ELSE [status |-> OK,
          f |-> [f EXCEPT !.sectors[SectorPos(d, src \div SectorMultiplier)] = sec]]

\* ------------------------------------------------------------------------
\* Opening an image file and moving sectors (C24, C27, C28), under SpecDisk
\* ------------------------------------------------------------------------
\* the sectors one uint32 byte position wraps after
SectorsPerWrap == U32 \div (bs * bps)

\* blocks of the images: the Oberon partition starts at block PartStart, the
\* link of the extended chain is block LinkStart, the root offset is one
\* sector
PartStart == 2 * bps
LinkStart == bps
RootOffset == bps

\* the sizes of the Oberon partition: three sectors, and two sectors more
\* than a byte position can tell apart
PartSizes == {RootOffset + n * bps : n \in {3, SectorsPerWrap + 2}}

\* signature bytes: 0x55, 0xAA and another value
SigBytes == {85, 170, 0}

\* bytes 3..8 of a boot block: "OBERON", "OBERON" with another last byte,
\* "OBERON" with another first byte
BootNames == {<< 79, 66, 69, 82, 79, 78 >>, << 79, 66, 69, 82, 79, 77 >>,
              << 78, 66, 69, 82, 79, 78 >>}

\* a block with a partition table
TableBlock(es, s510, s511) ==
    [ZeroBlock EXCEPT !.entries = es, !.b510 = s510, !.b511 = s511]

\* the raw sector numbers GetSector and PutSector are offered
RawSectors == {0, 1, 2, 4, SectorsPerWrap + 1, SectorsPerWrap + 2,
               SectorsPerWrap + 3}

\* the type of the partition the MBR names, and the signature of the link
\* of the chain when that partition is an extended one
Layouts == {<< oberonPartitionType, 85, 170 >>, << 11, 85, 170 >>}
           \cup {<< 5, a, b >> : a \in SigBytes, b \in SigBytes}

\* the image files: an MBR whose entry is the Oberon partition, an extended
\* partition with the Oberon partition as its logical partition, or a
\* partition of another type; every signature of the MBR, of the link and of
\* the boot block; boot blocks with and without "OBERON"
DiskImages ==
    { [blocks |->
          (0 :> TableBlock(<< [type |-> lay[1],
                               start |-> IF isExtended(lay[1]) THEN LinkStart
                                         ELSE PartStart,
                               size |-> sz] >>, m510, m511))
          @@ ((LinkStart * bs) :>
                 TableBlock(<< [type |-> oberonPartitionType,
                                start |-> PartStart - LinkStart,
                                size |-> sz] >>, lay[2], lay[3]))
          @@ ((PartStart * bs) :>
                 [ZeroBlock EXCEPT !.b0 = z0, !.b1 = z1, !.oberon = nm,
                                   !.rootOffset = RootOffset,
                                   !.b510 = z510, !.b511 = z511]),
       sectors |->
          [q \in {(((PartStart + RootOffset + (r - 1) * bps) * bs) % U32) :
                     r \in RawSectors \ {0}} |-> 0]] :
      lay \in Layouts,
      sz \in PartSizes, m510 \in SigBytes, m511 \in SigBytes,
      z0 \in {0, 85}, z1 \in {0, 170},
      z510 \in {0, 85}, z511 \in {0, 170}, nm \in BootNames }

\* before disk.Open: an image file, no *Disk, no FileSystem
InitDisk ==
    /\ dev \in DiskImages
    /\ drive = << >>
    /\ requests = << >>
    /\ disk = << >>
    /\ sectorReservationMap = {}
    /\ numUsedSectors = 0
    /\ files = << >>
    /\ dirPages = << >>
    /\ filesDirty = FALSE
    /\ handles = << >>
    /\ phase = "closed"
    /\ steps = 0
    /\ last = [op |-> "Image", status |-> OK]
    /\ snap = [taken |-> FALSE]

\* what the operations of internal/disk leave alone
fsState == << disk, sectorReservationMap, numUsedSectors, files, dirPages,
              filesDirty, handles, phase, snap, requests >>

\* disk.Open(imagePath)
DiskOpenOp(bound) ==
    /\ drive = << >>
    /\ steps < bound
    /\ \E d \in {DiskInit(dev)} :
        /\ drive' = << d >>
        /\ last' = [op |-> "DiskOpen", status |-> d.status]
    /\ steps' = steps + 1
    /\ UNCHANGED << dev, fsState >>

\* the addresses and the contents offered to GetSector and PutSector
DiskAddrs == {r * SectorMultiplier : r \in RawSectors} \cup {SectorMultiplier + 1}

\* d.PutSector(src, sec)
PutSectorOp(src, sec, bound) ==
    /\ Len(drive) = 1 /\ drive[1].status = OK
    /\ last.status = OK
    /\ steps < bound
    /\ \E r \in {DiskPutSector(dev, drive[1], src, sec)} :
        /\ dev' = r.f
        /\ last' = [op |-> "PutSector", src |-> src, sec |-> sec, status |-> r.status]
    /\ steps' = steps + 1
    /\ UNCHANGED << drive, fsState >>

\* d.GetSector(src)
GetSectorOp(src, bound) ==
    /\ Len(drive) = 1 /\ drive[1].status = OK
    /\ last.status = OK
    /\ steps < bound
    /\ \E r \in {DiskGetSector(dev, drive[1], src)} :
        last' = [op |-> "GetSector", src |-> src, sec |-> r.sec, status |-> r.status]
    /\ steps' = steps + 1
    /\ UNCHANGED << dev, drive, fsState >>

MaxDiskSteps == 3

NextDisk ==
    \/ DiskOpenOp(MaxDiskSteps)
    \/ \E src \in DiskAddrs, sec \in 1..2 : PutSectorOp(src, sec, MaxDiskSteps)
    \/ \E src \in DiskAddrs : GetSectorOp(src, MaxDiskSteps)

SpecDisk == InitDisk /\ [][NextDisk]_vars

\* the MBR of the image and, when its entry is an extended partition, the
\* link of the chain
TableBlocks ==
    IF isExtended(dev.blocks[0].entries[1].type)
    THEN {dev.blocks[0], dev.blocks[LinkStart * bs]}
    ELSE {dev.blocks[0]}

\* C27: disk.Open fails whenever bytes 510 and 511 of the MBR, or of a link
\* of the extended-partition chain, are not 0x55 and 0xAA, for every
\* combination of the two bytes.
C27_BadSignatureRejected ==
    (last.op = "DiskOpen"
        /\ \E b \in TableBlocks : ~(b.b510 = 85 /\ b.b511 = 170))
    => last.status # OK

\* the boot block of the Oberon partition of the image
BootBlock == dev.blocks[PartStart * bs]

\* C28: disk.Open of an image whose partition table is well formed and names
\* an Oberon partition succeeds if and only if bytes 3..8 of the boot block
\* spell "OBERON", whatever the other bytes of the boot block are, the
\* 0xAA55 signature word included.
C28_BootBlockNeedsOberon ==
    (last.op = "DiskOpen"
        /\ dev.blocks[0].entries[1].type # 11
        /\ \A b \in TableBlocks : b.b510 = 85 /\ b.b511 = 170)
    => (last.status = OK <=> BootBlock.oberon = << 79, 66, 69, 82, 79, 78 >>)

\* GetSector of the *Disk on the image file as it is in this state / in the
\* next state
SectorNow(src) == DiskGetSector(dev, drive[1], src)
SectorNext(src) == DiskGetSector(dev', drive[1], src)

\* the encoded addresses GetSector accepts
ValidSrc(src) ==
    /\ src % SectorMultiplier = 0
    /\ src \div SectorMultiplier >= 1
    /\ src \div SectorMultiplier <= drive[1].nummax

\* C24: GetSector and PutSector fail when the address is no multiple of 29
\* or its raw index is outside 1..size, and a PutSector that fails leaves the
\* image as it was; for a valid address a, GetSector(a) after PutSector(a, b)
\* returns b and every other sector reads as before.
C24_SectorAccess ==
    [][ /\ (last'.op \in {"PutSector", "GetSector"}) =>
                (last'.status = OK <=> ValidSrc(last'.src))
        /\ (last'.op = "PutSector" /\ last'.status # OK) => dev' = dev
        /\ (last'.op = "PutSector" /\ last'.status = OK) =>
                /\ SectorNext(last'.src) = [status |-> OK, sec |-> last'.sec]
                /\ \A a \in DiskAddrs :
                        (ValidSrc(a) /\ a # last'.src) => SectorNext(a) = SectorNow(a)
      ]_vars

\* ------------------------------------------------------------------------
\* Requests of the FUSE bridge that run at the same time (C29, C30), under
\* SpecBridge
\*
\* fs.Serve runs the handler of every kernel request in a goroutine of its
\* own, and neither FileSystem nor the bridge holds a lock. A request is
\*   [kind, pc, name, hint, sec, tmp, list, file, status]
\* kind "alloc" is the AllocSector call of a fileHandle.Write that grows a
\* file, kind "create" is dirNode.Create; pc is the next step of the
\* goroutine, the other fields are its local variables. A step is one read
\* or one write of the shared FileSystem fields.
\* ------------------------------------------------------------------------
\* the hints rand.Uint32() gives the two requests
BridgeHints == {0, SectorMultiplier}

Request(kind, nm, hint) ==
    [kind |-> kind, pc |-> IF kind = "alloc" THEN "enter" ELSE "find",
     name |-> nm, hint |-> hint, sec |-> 0, tmp |-> 0, list |-> << >>,
     file |-> << >>,
     status |-> OK]

\* a mounted image with two requests in flight: two writes that grow files,
\* or two creates, of the same name or of two names
InitBridge ==
    /\ \E r \in {FsInit(FormattedImage)} :
        /\ disk = r.disk
        /\ sectorReservationMap = r.map
        /\ numUsedSectors = r.used
        /\ files = r.files
        /\ dirPages = r.dirPages
    /\ filesDirty = FALSE
    /\ handles = << >>
    /\ phase = "open"
    /\ steps = 0
    /\ last = [op |-> "Mount", status |-> OK]
    /\ snap = [taken |-> FALSE]
    /\ dev = << >> /\ drive = << >>
    /\ requests \in
         {<< Request("alloc", << >>, h1), Request("alloc", << >>, h2) >> :
              h1 \in BridgeHints, h2 \in BridgeHints}
         \cup {<< Request("create", << 65 >>, h1), Request("create", nm, h2) >> :
              h1 \in BridgeHints, h2 \in BridgeHints, nm \in {<< 65 >>, << 66 >>}}

\* goroutine t takes a step from pc and goes on as the request q
Goes(t, pc, q) ==
    /\ requests[t].pc = pc
    /\ requests' = [requests EXCEPT ![t] = q]
    /\ steps' = steps + 1
    /\ last' = [op |-> "Bridge", t |-> t, status |-> q.status]
    /\ UNCHANGED << handles, phase, snap, dev, drive, dirPages >>

\* AllocSector: if hint > Size() then hint = 0; sec := hint + 29
AllocEnter(t) ==
    /\ requests[t].pc = "enter"
    /\ \E h \in {IF requests[t].hint > DiskSize THEN 0 ELSE requests[t].hint} :
        Goes(t, "enter", [requests[t] EXCEPT !.hint = h, !.sec = (h + 29) % U32,
                                             !.pc = "test"])
    /\ UNCHANGED << disk, sectorReservationMap, numUsedSectors, files, filesDirty >>

\* AllocSector: one turn of the loop up to the test of the bit
AllocTest(t) ==
    /\ requests[t].pc = "test"
    /\ \E q \in {requests[t]} :
        Goes(t, "test",
             IF q.sec = q.hint THEN [q EXCEPT !.status = DiskFull, !.pc = "done"]
             ELSE IF IsSectorFree(sectorReservationMap, q.sec)
                  THEN [q EXCEPT !.pc = "set"]
             ELSE [q EXCEPT !.sec = IF q.sec + SectorMultiplier > DiskSize
                                    THEN 29 ELSE q.sec + SectorMultiplier])
    /\ UNCHANGED << disk, sectorReservationMap, numUsedSectors, files, filesDirty >>

\* AllocSector: fs.sectorReservationMap.Set(sec / 29)
AllocSetBit(t) ==
    /\ Goes(t, "set", [requests[t] EXCEPT !.pc = "load"])
    /\ sectorReservationMap' =
           BitSetSet(sectorReservationMap, requests[t].sec \div SectorMultiplier)
    /\ UNCHANGED << disk, numUsedSectors, files, filesDirty >>

\* AllocSector: fs.numUsedSectors++, the read
AllocLoadCount(t) ==
    /\ Goes(t, "load", [requests[t] EXCEPT !.tmp = numUsedSectors, !.pc = "store"])
    /\ UNCHANGED << disk, sectorReservationMap, numUsedSectors, files, filesDirty >>

\* AllocSector: fs.numUsedSectors++, the write; return sec
AllocStoreCount(t) ==
    /\ Goes(t, "store", [requests[t] EXCEPT !.pc = "done"])
    /\ numUsedSectors' = (requests[t].tmp + 1) % U32
    /\ UNCHANGED << disk, sectorReservationMap, files, filesDirty >>

\* dirNode.Create: d.fs.Find(req.Name); EEXIST if the file is there
CreateFind(t) ==
    /\ requests[t].pc = "find"
    /\ \E e \in {Find(disk, files, requests[t].name)} :
        Goes(t, "find",
             IF e.status = NotFound THEN [requests[t] EXCEPT !.pc = "newfile"]
             ELSE [requests[t] EXCEPT !.pc = "done",
                      !.status = IF e.status = OK THEN Exists ELSE e.status])
    /\ UNCHANGED << disk, sectorReservationMap, numUsedSectors, files, filesDirty >>

\* dirNode.Create: d.fs.NewFile(req.Name)
CreateNewFile(t) ==
    /\ requests[t].pc = "newfile"
    /\ \E q \in {requests[t]} :
       \E a \in {AllocSector(sectorReservationMap, q.hint)} :
       \E st \in {IF ~validateFilename(q.name) THEN BadName ELSE a.status} :
       \E S \in {IF st = OK
                 THEN PutSectorS(AllocMark(Cur(ZeroSector), a.sec), a.sec,
                                 NewHeader(q.name, a.sec))
                 ELSE Cur(ZeroSector)} :
        /\ Goes(t, "newfile",
                IF st = OK
                THEN [q EXCEPT !.pc = "register", !.sec = a.sec,
                               !.file = << [header |-> NewHeader(q.name, a.sec),
                                            headerAddr |-> a.sec] >>]
                ELSE [q EXCEPT !.pc = "done", !.status = st])
        /\ disk' = S.disk
        /\ sectorReservationMap' = S.map
        /\ numUsedSectors' = S.used
    /\ UNCHANGED << files, filesDirty >>

\* File.Register: f.fs.Find(f.Name()); dirNode.Create drops the error
RegisterFind(t) ==
    /\ requests[t].pc = "register"
    /\ \E e \in {Find(disk, files, requests[t].name)} :
        Goes(t, "register",
             IF e.status = NotFound THEN [requests[t] EXCEPT !.pc = "insert"]
             ELSE [requests[t] EXCEPT !.pc = "done"])
    /\ UNCHANGED << disk, sectorReservationMap, numUsedSectors, files, filesDirty >>

\* FileSystem.Insert: fs.Find(name)
InsertFind(t) ==
    /\ requests[t].pc = "insert"
    /\ \E e \in {Find(disk, files, name(requests[t].file[1].header))} :
        Goes(t, "insert",
             IF e.status = NotFound THEN [requests[t] EXCEPT !.pc = "append"]
             ELSE [requests[t] EXCEPT !.pc = "done"])
    /\ UNCHANGED << disk, sectorReservationMap, numUsedSectors, files, filesDirty >>

\* FileSystem.Insert: fs.files = append(fs.files, ...), the read of fs.files
InsertLoad(t) ==
    /\ Goes(t, "append", [requests[t] EXCEPT !.list = files, !.pc = "assign"])
    /\ UNCHANGED << disk, sectorReservationMap, numUsedSectors, files, filesDirty >>

\* FileSystem.Insert: fs.files = append(fs.files, ...), the write of
\* fs.files; fs.filesDirty = true
InsertStore(t) ==
    /\ requests[t].pc = "assign"
    /\ Goes(t, "assign", [requests[t] EXCEPT !.list = << >>, !.pc = "done"])
    /\ files' = Append(requests[t].list,
                       [name |-> name(requests[t].file[1].header),
                        adr |-> requests[t].file[1].headerAddr, p |-> << >>])
    /\ filesDirty' = TRUE
    /\ UNCHANGED << disk, sectorReservationMap, numUsedSectors >>

NextBridge ==
    \/ \E t \in 1..Len(requests) : AllocEnter(t)
    \/ \E t \in 1..Len(requests) : AllocTest(t)
    \/ \E t \in 1..Len(requests) : AllocSetBit(t)
    \/ \E t \in 1..Len(requests) : AllocLoadCount(t)
    \/ \E t \in 1..Len(requests) : AllocStoreCount(t)
    \/ \E t \in 1..Len(requests) : CreateFind(t)
    \/ \E t \in 1..Len(requests) : CreateNewFile(t)
    \/ \E t \in 1..Len(requests) : RegisterFind(t)
    \/ \E t \in 1..Len(requests) : InsertFind(t)
    \/ \E t \in 1..Len(requests) : InsertLoad(t)
    \/ \E t \in 1..Len(requests) : InsertStore(t)

SpecBridge == InitBridge /\ [][NextBridge]_vars

\* all requests have returned
AllDone == \A t \in 1..Len(requests) : requests[t].pc = "done"

\* C29: when two AllocSector calls that ran at the same time have both
\* returned an address, the two addresses differ and numUsedSectors is two
\* more than before the calls.
C29_ConcurrentAllocDistinct ==
    (AllDone /\ \A t \in 1..Len(requests) :
                    requests[t].kind = "alloc" /\ requests[t].status = OK)
    => /\ requests[1].sec # requests[2].sec
       /\ numUsedSectors = FsInit(FormattedImage).used + 2

\* C30: when the create requests that ran at the same time have returned,
\* the directory list holds exactly one entry of each requested name.
C30_ConcurrentCreateOneEntry ==
    (AllDone /\ \A t \in 1..Len(requests) : requests[t].kind = "create")
    => \A t \in 1..Len(requests) :
           Cardinality({i \in 1..Len(files) : files[i].name = requests[t].name}) = 1

\* ------------------------------------------------------------------------
\* Remove (C31), under SpecDir
\* ------------------------------------------------------------------------
\* C31: remove of a registered name deletes exactly the entry of that name
\* (find of the name is absent afterwards, the other entries stay as they
\* were and in their order), sets the dirty flag and leaves the reservation
\* map, the counter and the image as they were; remove of a name that is not
\* registered reports false and changes nothing.
C31_RemoveDeletesOneEntry ==
    [][ last'.op = "Remove" =>
          LET i == findFile(files, last'.name)
          IN  /\ last'.removed <=> i # 0
              /\ i # 0 =>
                    /\ files' = SubSeq(files, 1, i - 1)
                                \o SubSeq(files, i + 1, Len(files))
                    /\ Find(disk', files', last'.name).status = NotFound
                    /\ filesDirty'
              /\ i = 0 => (files' = files /\ filesDirty' = filesDirty)
              /\ sectorReservationMap' = sectorReservationMap
              /\ numUsedSectors' = numUsedSectors
              /\ disk' = disk
      ]_vars

\* a remove has deleted the first of two registered files; the header sector
\* of the removed file is still reserved
C31_Witness ==
    /\ last.op = "Remove" /\ last.removed
    /\ Len(last.preFiles) = 2
    /\ last.preFiles[1].name = last.name
    /\ Len(files) = 1
    /\ ~IsSectorFree(sectorReservationMap, last.preFiles[1].adr)

\* ------------------------------------------------------------------------
\* internal/util BitSet as Go stores it (C32, C35): a slice of 64-bit words,
\* a word being given by the set of its bit positions that are 1.  The
\* slice is held in sectorReservationMap, sized as FileSystem.New sizes it
\* for a partition of last.size sectors.
\* ------------------------------------------------------------------------
NewBitSet(size) == [w \in 1..NewBitSetWords(size) |-> {}]

\* the index expression b[bit/64] is inside the slice
WordInSlice(b, bit) == bit \div WordBits < Len(b)

\* Set that assigns the mask to the word instead of or-ing it in
Set_Assigns(b, bit) ==
    IF ~WordInSlice(b, bit) THEN [status |-> IndexOutOfRange, b |-> b]
    ELSE [status |-> OK,
          b |-> [b EXCEPT ![bit \div WordBits + 1] = {bit % WordBits}]]

\* b[bit/64] |= 1 << (bit % 64)
Set(b, bit) ==
    IF ~WordInSlice(b, bit) THEN [status |-> IndexOutOfRange, b |-> b]
    ELSE [status |-> OK,
          b |-> [b EXCEPT ![bit \div WordBits + 1] = @ \cup {bit % WordBits}]]

\* b[bit/64] &^= 1 << (bit % 64)
Clear(b, bit) ==
    IF ~WordInSlice(b, bit) THEN [status |-> IndexOutOfRange, b |-> b]
    ELSE [status |-> OK,
          b |-> [b EXCEPT ![bit \div WordBits + 1] = @ \ {bit % WordBits}]]

\* b[bit/64] & (1 << (bit % 64)) != 0
Test(b, bit) ==
    IF ~WordInSlice(b, bit) THEN [status |-> IndexOutOfRange, r |-> FALSE]
    ELSE [status |-> OK, r |-> (bit % WordBits) \in b[bit \div WordBits + 1]]

MaxBitSteps == 3

\* numbers of sectors of a partition, around the word boundaries; 129 is the
\* size TestBitSet uses
BitSizes == {5 + 1, WordBits - 1, WordBits, WordBits + 1,
             2 * WordBits, 2 * WordBits + 1}

\* raw sector indices the operations are tried on
BitProbes == {0, 1, 5, WordBits - 1, WordBits, WordBits + 1,
              2 * WordBits, 2 * WordBits + 1}

InitBits ==
    /\ \E size \in BitSizes :
          /\ sectorReservationMap = NewBitSet(size)
          /\ last = [op |-> "NewBitSet", status |-> OK, size |-> size,
                     bit |-> 0, r |-> FALSE, before |-> << >>]
    /\ numUsedSectors = 0
    /\ disk = << >> /\ files = << >> /\ dirPages = << >>
    /\ filesDirty = FALSE /\ handles = << >>
    /\ phase = "open" /\ steps = 0
    /\ snap = [taken |-> FALSE]
    /\ dev = << >> /\ drive = << >> /\ requests = << >>

\* what a BitSet call leaves behind: the slice, and a panic ends the process
BitStep(op, bit, status, b, r) ==
    /\ sectorReservationMap' = b
    /\ last' = [op |-> op, status |-> status, size |-> last.size,
                bit |-> bit, r |-> r, before |-> sectorReservationMap]
    /\ phase' = IF status = OK THEN "open" ELSE "crashed"
    /\ steps' = steps + 1
    /\ UNCHANGED << disk, numUsedSectors, files, dirPages, filesDirty,
                    handles, snap >>
    /\ UNCHANGED diskVars

SetOp(bit) ==
    /\ Ready(MaxBitSteps) /\ bit <= last.size
    /\ \E x \in {Set(sectorReservationMap, bit)} :
          BitStep("Set", bit, x.status, x.b, FALSE)

ClearOp(bit) ==
    /\ Ready(MaxBitSteps) /\ bit <= last.size
    /\ \E x \in {Clear(sectorReservationMap, bit)} :
          BitStep("Clear", bit, x.status, x.b, FALSE)

TestOp(bit) ==
    /\ Ready(MaxBitSteps) /\ bit <= last.size
    /\ \E x \in {Test(sectorReservationMap, bit)} :
          BitStep("Test", bit, x.status, sectorReservationMap, x.r)

NextBits ==
    \/ \E bit \in BitProbes : SetOp(bit)
    \/ \E bit \in BitProbes : ClearOp(bit)
    \/ \E bit \in BitProbes : TestOp(bit)

SpecBits == InitBits /\ [][NextBits]_vars

\* the bits of a slice that are 1, as bit numbers
BitsSet(b) ==
    {k \in 0..(Len(b) * WordBits - 1) : (k % WordBits) \in b[k \div WordBits + 1]}

\* C32: NewBitSet(n) has ceil(n/64) words and every bit clear; a Set makes
\* Test of that bit true and a Clear makes it false, each leaving the number
\* of words and every other bit as they were; a Clear that follows a Set of
\* the same bit, clear before the Set, gives back the bitset from before
\* the Set.
C32_BitSetSemantics ==
    [][ /\ last.op = "NewBitSet" =>
            /\ Len(sectorReservationMap) * WordBits >= last.size
            /\ (Len(sectorReservationMap) - 1) * WordBits < last.size
            /\ BitsSet(sectorReservationMap) = {}
        /\ (last'.op = "Set" /\ last'.status = OK) =>
            /\ Test(sectorReservationMap', last'.bit).r
            /\ Len(sectorReservationMap') = Len(sectorReservationMap)
            /\ BitsSet(sectorReservationMap') \ {last'.bit}
                 = BitsSet(sectorReservationMap) \ {last'.bit}
        /\ (last'.op = "Clear" /\ last'.status = OK) =>
            /\ ~Test(sectorReservationMap', last'.bit).r
            /\ Len(sectorReservationMap') = Len(sectorReservationMap)
            /\ BitsSet(sectorReservationMap') \ {last'.bit}
                 = BitsSet(sectorReservationMap) \ {last'.bit}
        /\ (/\ last.op = "Set" /\ last.status = OK
            /\ ~Test(last.before, last.bit).r
            /\ last'.op = "Clear" /\ last'.bit = last.bit) =>
            sectorReservationMap' = last.before
        /\ (last'.op = "Test" /\ last'.status = OK) =>
            (last'.r <=> last'.bit \in BitsSet(sectorReservationMap))
      ]_vars

\* the steps of TestBitSet: in NewBitSet(129), with another bit set already,
\* bit 5 was set and has just been cleared again
C32_Witness ==
    /\ last.size = 2 * WordBits + 1
    /\ Len(sectorReservationMap) = 3
    /\ last.op = "Clear" /\ last.bit = 5 /\ last.status = OK
    /\ 5 \in BitsSet(last.before)
    /\ BitsSet(sectorReservationMap) = {2 * WordBits}

\* C35: on the reservation map of a partition of any size, Set, Clear and
\* Test of every raw sector index in [0, size] stay inside the bitmap.
C35_MapCoversEveryIndex ==
    (last.op \in {"Set", "Clear", "Test"} /\ last.bit <= last.size)
        => last.status = OK

\* ------------------------------------------------------------------------
\* The pages of a rebuilt directory (C33), under SpecPersist
\* ------------------------------------------------------------------------
\* C33: after the rebuild a Close of a dirty directory performs, the pages
\* of the new tree have pairwise distinct addresses, each of them is marked
\* used in the reservation map, and the address of every old page that the
\* new tree does not use is free.
C33_RebuiltPagesDistinctAndMarked ==
    [][ (last'.op = "Close" /\ last'.wasDirty /\ last'.status = OK) =>
          /\ NoRepeat(dirPages')
          /\ \A a \in Elems(dirPages') : ~IsSectorFree(sectorReservationMap', a)
          /\ \A a \in Elems(dirPages) \ Elems(dirPages') :
                IsSectorFree(sectorReservationMap', a)
      ]_vars

\* ------------------------------------------------------------------------
\* The tree builder on its own (C34): buildDirTree applied to sorted entry
\* lists, with a provider that reuses the first pages of an old directory and
\* allocates the others
\* ------------------------------------------------------------------------
MaxTreeEntries == 8

\* the entries named by a set of letters, in ascending order of name
RECURSIVE SortedEntries(_)
SortedEntries(T) ==
    IF T = {} THEN << >>
    ELSE With(CHOOSE k \in T : \A j \in T : k <= j, LAMBDA k :
           << [name |-> << 64 + k >>, adr |-> 0, p |-> << >>] >>
           \o SortedEntries(T \ {k}))

\* fs.files is any sorted list; fs.dirPages holds 0, 1 or 2 old pages, which
\* writeDirectoryToDisk has freed
InitTree ==
    /\ \E T \in SUBSET (1..MaxTreeEntries) : files = SortedEntries(T)
    /\ \E k \in 0..2 : dirPages = [i \in 1..k |-> i * SectorMultiplier]
    /\ disk = FormattedImage
    /\ sectorReservationMap = {0}
    /\ numUsedSectors = 0
    /\ filesDirty = TRUE /\ handles = << >>
    /\ phase = "open" /\ steps = 0
    /\ last = [op |-> "New", status |-> OK]
    /\ snap = [taken |-> FALSE]
    /\ dev = << >> /\ drive = << >> /\ requests = << >>

\* rootDir := fs.buildDirTree(nil, fs.files, dirPageAddrProvider, ...)
BuildDirTreeOp ==
    /\ Ready(1)
    /\ \E r \in {buildDirTree([S |-> Cur(ZeroSector), old |-> dirPages,
                               next |-> 0, new |-> << >>], files)} :
          /\ last' = [op |-> "buildDirTree", status |-> r.P.S.status,
                      page |-> r.page, new |-> r.P.new]
          /\ sectorReservationMap' = r.P.S.map
          /\ numUsedSectors' = r.P.S.used
          /\ Step(r.P.S.status)
    /\ UNCHANGED << disk, files, dirPages, filesDirty, handles, snap >>

NextTree == BuildDirTreeOp

SpecTree == InitTree /\ [][NextTree]_vars

\* the numbers of entries of the pages of a tree, page by page
RECURSIVE PageLoads(_)
RECURSIVE EntryPageLoads(_, _)
EntryPageLoads(es, i) ==
    IF i > Len(es) THEN << >>
    ELSE PageLoads(es[i].p) \o EntryPageLoads(es, i + 1)

PageLoads(dp) ==
    IF Len(dp) = 0 THEN << >>
    ELSE << Len(dp[1].entries) >> \o PageLoads(dp[1].p0)
         \o EntryPageLoads(dp[1].entries, 1)

\* C34: for every sorted list of n >= 1 entries the tree builder returns a
\* tree in which every page holds between 1 and dirPgSize entries and whose
\* in-order traversal is the list, entry for entry and in its order (so every
\* entry is in exactly one page); it takes one address per page.
C34_TreeHoldsTheList ==
    (last.op = "buildDirTree" /\ Len(files) >= 1) =>
        /\ last.status = OK
        /\ Len(last.page) = 1
        /\ \A i \in 1..Len(PageLoads(last.page)) :
              PageLoads(last.page)[i] >= 1 /\ PageLoads(last.page)[i] <= dirPgSize
        /\ collectDirEntries(last.page) = files
        /\ Len(last.new) = Len(PageLoads(last.page))

\* a list of the largest length was built into a tree of depth 3, with an
\* entry of an inner page that has no subtree
C34_Witness ==
    /\ last.op = "buildDirTree" /\ last.status = OK
    /\ Len(files) = 8
    /\ PageDepth(last.page) = 3
    /\ \E i \in 1..Len(last.page[1].p0[1].entries) :
          Len(last.page[1].p0[1].entries[i].p) = 0

\* ------------------------------------------------------------------------
\* One File per header (C36, C38): sessions of dirNode.Create, File.WriteAt
\* and File.SetName, no File being obtained a second time
\* ------------------------------------------------------------------------
MaxHeaderSteps == 4

\* positions offered: the start of the file (the data bytes of the header
\* sector), the start of its second sector, and the last position of the
\* sector table's reach and the one after it
HeaderPositions == {0, SectorStart(1), SectorStart(secTabSize) - 1,
                    SectorStart(secTabSize)}

\* names offered to SetName: a name in use, and the shortest name that does
\* not fit the name field
NewNames == {<< 66 >>, [i \in 1..(fnLength + 1) |-> 65]}

NextHeader ==
    \/ \E nm \in Names, hint \in FileHints : CreateOp(nm, hint, MaxHeaderSteps)
    \/ \E h \in 1..Len(handles), pos \in HeaderPositions, len \in SessionLengths,
          hints \in HintSeqs :
            WriteAtOp(h, pos, Data(len, pos), hints, MaxHeaderSteps)
    \/ \E h \in 1..Len(handles), nm \in NewNames : SetNameOp(h, nm, MaxHeaderSteps)

SpecHeader == Init /\ [][NextHeader]_vars

\* C36: while no other File of the same header address is in use, the
\* header a File holds in memory equals the header sector on disk at its
\* header address after every completed Create, WriteAt (ensureSize
\* included) and SetName, also after a WriteAt that stores data in the bytes
\* of sector 0 behind the header.
C36_HeaderCopyEqualsDisk ==
    phase = "open" =>
        \A h \in 1..Len(handles) :
            (\A g \in 1..Len(handles) :
                 handles[g].headerAddr = handles[h].headerAddr => g = h)
            => handles[h].header = GetSector(disk, handles[h].headerAddr)

\* a renamed file has been written from position 0 on into a second sector:
\* the data cell of sector 0 behind the header holds the first byte
C36_Witness ==
    /\ last.op = "WriteAt" /\ last.status = OK /\ last.pos = 0
    /\ Len(last.data) > sectorSize - headerSize
    /\ handles[last.h].header[headerSize] = last.data[1]
    /\ \E i \in 1..Len(files) :
          /\ files[i].adr = handles[last.h].headerAddr
          /\ files[i].name # name(handles[last.h].header)

\* ------------------------------------------------------------------------
\* Two Files of one header (C37): sessions of dirNode.Create, FileSystem.Find
\* as dirNode.Lookup calls it, and File.WriteAt through any File obtained
\* ------------------------------------------------------------------------
MaxSharedSteps == 4

NextShared ==
    \/ \E hint \in FileHints : CreateOp(<< 65 >>, hint, MaxSharedSteps)
    \/ FindOp(<< 65 >>, MaxSharedSteps)
    \/ \E h \in 1..Len(handles), pos \in SessionPositions, len \in SessionLengths,
          hints \in HintSeqs :
            WriteAtOp(h, pos, Data(len, pos), hints, MaxSharedSteps)

SpecShared == Init /\ [][NextShared]_vars

\* the header on disk of the File the step was made through, before and after
HdrBefore == GetSector(disk, handles[last'.h].headerAddr)
HdrAfter == GetSector(disk', handles[last'.h].headerAddr)

\* C37: with two Files of the same header address, a completed WriteAt
\* through one of them leaves the size in the header on disk at least what it
\* was, leaves every entry of the sector table and of the extension table on
\* disk as it was if it was set, and leaves every byte of the file outside
\* the written range readable with its value.
C37_SharedHeaderNotDestroyed ==
    [][ (/\ last'.op = "WriteAt" /\ last'.status = OK
         /\ \E g \in 1..Len(handles) :
               g # last'.h /\ handles[g].headerAddr = handles[last'.h].headerAddr) =>
          /\ Size(HdrAfter) >= Size(HdrBefore)
          /\ \A c \in ofsExtTable..(headerSize - 1) :
                HdrBefore[c] # 0 => HdrAfter[c] = HdrBefore[c]
          /\ \A q \in 0..(Size(HdrBefore) - 1) :
                (q < last'.pos \/ q >= last'.pos + Len(last'.data)) =>
                    ReadAt(disk', HdrAfter, q, 1) = ReadAt(disk, HdrBefore, q, 1)
      ]_vars

\* ------------------------------------------------------------------------
\* The first index sector (C38): one file grown by WriteAt on an image whose
\* free sectors still hold the bytes of deleted files
\* ------------------------------------------------------------------------
MaxExtSteps == 4

\* a formatted image with an empty directory, every other sector full of
\* old bytes
UsedImage ==
    [s \in 1..nummax |->
        IF s = 1 THEN FormattedImage[1] ELSE [c \in 0..(sectorSize - 1) |-> 1]]

InitExt ==
    \E r \in {FsInit(UsedImage)} :
        /\ disk = r.disk
        /\ sectorReservationMap = r.map
        /\ numUsedSectors = r.used
        /\ files = r.files
        /\ dirPages = r.dirPages
        /\ filesDirty = FALSE
        /\ handles = << >>
        /\ phase = "open"
        /\ steps = 0
        /\ last = [op |-> "New", status |-> r.status]
        /\ snap = [taken |-> FALSE]
        /\ dev = << >> /\ drive = << >> /\ requests = << >>

\* positions offered: the start of the file, and the positions around the
\* last byte the sector table reaches
ExtPositions == {0, SectorStart(secTabSize) - 2, SectorStart(secTabSize) - 1,
                 SectorStart(secTabSize)}

NextExt ==
    \/ \E hint \in FileHints : NewFileOp(<< 65 >>, hint, 1)
    \/ \E h \in 1..Len(handles), pos \in ExtPositions, len \in {1, 2},
          hints \in HintSeqs :
            WriteAtOp(h, pos, Data(len, pos), hints, MaxExtSteps)

SpecExt == InitExt /\ [][NextExt]_vars

\* the file sectors a header of that size has: ceil((size + headerSize) /
\* sectorSize)
SectorsFor(hdr) == (Size(hdr) + headerSize + sectorSize - 1) \div sectorSize

\* C38: after every completed WriteAt the extension table of the File is
\* non-empty exactly if its size exceeds secTabSize * sectorSize -
\* headerSize (130720 in the source); a write that leaves the size at or
\* below that reserves data sectors only; the write that takes the size
\* beyond it reserves the first index sector, which on disk holds the
\* addresses of the file sectors behind the sector table and zeros in every
\* other place.
C38_FirstIndexSector ==
    [][ (last'.op = "WriteAt" /\ last'.status = OK) =>
          LET hb == handles[last'.h].header
              ha == handles'[last'.h].header
              ext == getExtensionTable(ha)
              grown == sectorReservationMap' \ sectorReservationMap
          IN  /\ Len(ext) > 0 <=> Size(ha) > SectorStart(secTabSize)
              /\ Size(ha) <= SectorStart(secTabSize) =>
                    BitsOf(Elems(getSectorTable(ha))) = BitsOf(Elems(getSectorTable(hb))) \cup grown
              /\ (Len(getExtensionTable(hb)) = 0 /\ Len(ext) > 0) =>
                    /\ ext[1] \div SectorMultiplier \in grown
                    /\ Len(entries(GetSector(disk', ext[1])))
                         = Min(SectorsFor(ha) - secTabSize, indexSize)
                    /\ \A c \in 0..(sectorSize - 1) :
                          c >= Len(entries(GetSector(disk', ext[1])))
                              => GetSector(disk', ext[1])[c] = 0
      ]_vars

\* a file of exactly the size the sector table reaches, without an index
\* sector, has just been grown by one byte and has its first index sector
C38_Witness ==
    /\ last.op = "WriteAt" /\ last.status = OK
    /\ last.preSize = SectorStart(secTabSize)
    /\ Size(handles[last.h].header) = SectorStart(secTabSize) + 1
    /\ Len(getExtensionTable(handles[last.h].header)) = 1
    /\ Len(entries(GetSector(disk, getExtensionTable(handles[last.h].header)[1]))) = 1

\* ------------------------------------------------------------------------
\* The counter of used sectors (C39), under SpecPersist
\* ------------------------------------------------------------------------
\* C39: whenever an operation has completed (New, Create, WriteAt, Remove,
\* Close with or without a rebuild), fs.numUsedSectors is the number of set
\* bits of the reservation map other than bit 0.
C39_CounterCountsSetBits ==
    phase \in {"open", "closed"} =>
        numUsedSectors = Cardinality(sectorReservationMap \ {0})

\* ------------------------------------------------------------------------
\* The sector of the map index (C40), under SpecReopen
\* ------------------------------------------------------------------------
\* C40: the sector at address Size(), whose first bytes every New
\* overwrites, is never the result of an allocation and never a directory
\* page or a header, data or index sector of a file; a New leaves every
\* sector of the directory and of the files it finds as it was.
C40_MapIndexSectorNotHandedOut ==
    [][ /\ (last'.op = "Create" /\ last'.status = OK) => last'.sec # DiskSize
        /\ sectorReservationMap' \ sectorReservationMap
              \subseteq 0..(DiskSize \div SectorMultiplier - 1)
        /\ ~(DiskSize \in Elems(dirPages'))
        /\ \A i \in 1..Len(files') : ~(DiskSize \in EntrySectors(files'[i]))
        /\ (last'.op = "Open" /\ last'.status = OK) =>
              \A a \in Elems(dirPages')
                         \cup UNION {EntrySectors(files'[i]) : i \in 1..Len(files')} :
                  ValidAddr(a) => GetSector(disk', a) = GetSector(disk, a)
      ]_vars

====
